---- MODULE Spec2Model ----
(***************************************************************************)
(* Model of cmaqsatproc's Level-2 -> Level-3 engine:                       *)
(*   readers/core.py      satellite.to_dataframe / add_weights /           *)
(*                        to_level3 / paths_to_level3                      *)
(*   readers/omi, viirs   the per-instrument validity builders             *)
(*                                                                         *)
(* Geometry is planar and exact: pixel footprints and grid cells are       *)
(* axis-parallel quadrilaterals <<x0, y0, x1, y1>> on an integer lattice,  *)
(* so areas are naturals and averages are exact rationals [n, d]; the      *)
(* null value (NaN) is the rational with denominator 0.                    *)
(***************************************************************************)
EXTENDS Integers, Sequences, FiniteSets, TLC

(* ---------------------------- bounds ----------------------------------- *)
MaxPaths == 3      \* longest list of paths handed to paths_to_level3
MaxPix == 3        \* most pixels in one swath
MaxVal == 2        \* largest retrieved value of a pixel
NLev == 2          \* number of vertical levels of a profile variable

(* ---------------------------- rationals -------------------------------- *)
Null == [n |-> 0, d |-> 0]
IsNull(v) == v.d = 0

RECURSIVE GCD(_, _)
GCD(a, b) == IF b = 0 THEN a ELSE GCD(b, a % b)

Frac(n, d) ==
    IF d = 0 THEN Null
    ELSE LET g == GCD(n, d) IN [n |-> n \div g, d |-> d \div g]

FInt(v) == Frac(v, 1)
FAdd(a, b) == Frac(a.n * b.d + b.n * a.d, a.d * b.d)
FMulInt(a, w) == Frac(a.n * w, a.d)
FDivInt(a, w) == Frac(a.n, a.d * w)

Range(s) == {s[i] : i \in 1..Len(s)}
Max(a, b) == IF a >= b THEN a ELSE b
Min(a, b) == IF a <= b THEN a ELSE b

RECURSIVE SetToSeq(_)
SetToSeq(S) ==
    IF S = {} THEN <<>>
    ELSE LET x == CHOOSE y \in S : TRUE IN <<x>> \o SetToSeq(S \ {x})

(* ---------------------------- geometry --------------------------------- *)
\* planar area of a quadrilateral <<x0, y0, x1, y1>>; 0 when degenerate
BoxArea(b) ==
    IF b[3] > b[1] /\ b[4] > b[2] THEN (b[3] - b[1]) * (b[4] - b[2]) ELSE 0

BoxIntersection(p, c) ==
    <<Max(p[1], c[1]), Max(p[2], c[2]), Min(p[3], c[3]), Min(p[4], c[4])>>

(* ---------------------------- swath datasets --------------------------- *)
\* satellite._stdkeys, satellite._geokeys (the corners of a pixel's box)
_stdkeys == <<"valid">>
_geokeys == <<"ll_x", "ll_y", "lu_x", "lu_y", "uu_x", "uu_y", "ul_x", "ul_y">>

SwathDims == <<"nTimes", "nXtrack">>
GridDims == <<"ROW", "COL">>

\* the dimensions of the variables a swath file may hold
VarDims(key) ==
    IF key = "ScatteringWeight" THEN SwathDims \o <<"nPresLevels">> ELSE SwathDims

EmptyIdx == [d \in {} |-> 0]
PixIdx(i) == [nTimes |-> 0, nXtrack |-> i - 1]
CellIdx(r, c) == [ROW |-> r, COL |-> c]

\* the index tuples along the non-swath dimensions of dims, in order
ExtraIdx(dims) ==
    IF "nPresLevels" \in Range(dims)
    THEN [l \in 1..NLev |-> [nPresLevels |-> l]]
    ELSE <<EmptyIdx>>

\* one corner coordinate of a pixel: ll = (x0, y0), lu = (x0, y1),
\* uu = (x1, y1), ul = (x1, y0)
Corner(box, key) ==
    CASE key = "ll_x" -> box[1] [] key = "ll_y" -> box[2]
      [] key = "lu_x" -> box[1] [] key = "lu_y" -> box[4]
      [] key = "uu_x" -> box[3] [] key = "uu_y" -> box[4]
      [] key = "ul_x" -> box[3] [] key = "ul_y" -> box[2]

\* the polygon ll -> lu -> uu -> ul of a table row holding the eight corners
EasyDataFramePolygon(cols) ==
    <<Min(cols["ll_x"], cols["uu_x"]), Min(cols["ll_y"], cols["uu_y"]),
      Max(cols["ll_x"], cols["uu_x"]), Max(cols["ll_y"], cols["uu_y"])>>

\* ds[key] at pixel i and extra index e
DsValue(ds, key, i, e) ==
    IF key = "valid" THEN ds.pix[i].valid
    ELSE IF key \in Range(_geokeys) THEN Corner(ds.pix[i].box, key)
    ELSE ds.pix[i].vals[key][e]

DataVars(ds) == DOMAIN ds.attrs
NoAttrs == "{}"
\* ds[key].attrs
DsAttrs(ds, key) == IF key \in DOMAIN ds.attrs THEN ds.attrs[key] ELSE NoAttrs
Variables(ds) == DataVars(ds) \cup Range(_stdkeys) \cup Range(_geokeys)

\* the dimensions of the table of a list of keys (the longest of them)
KeysDims(keys) ==
    IF \E i \in 1..Len(keys) : Len(VarDims(keys[i])) > Len(SwathDims)
    THEN SwathDims \o <<"nPresLevels">> ELSE SwathDims

RECURSIVE SelectSeq2(_, _, _)
\* the subsequence of 1..n of the positions i for which keep[i]
SelectSeq2(keep, n, acc) ==
    IF n = 0 THEN acc
    ELSE SelectSeq2(keep, n - 1, IF keep[n] THEN <<n>> \o acc ELSE acc)

\* a faulty to_dataframe that never drops the rows of invalid pixels
ToDataframeRows_KeepsInvalid(ds, varkeys, valid) ==
    LET keys == _stdkeys \o varkeys
        ex == ExtraIdx(KeysDims(varkeys))
        outkeys == IF "valid" \in Range(varkeys) THEN Range(keys)
                   ELSE Range(keys) \ {"valid"}
    IN [r \in 1..(Len(ds.pix) * Len(ex)) |->
          LET i == ((r - 1) \div Len(ex)) + 1
              e == ex[((r - 1) % Len(ex)) + 1]
          IN [idx |-> PixIdx(i) @@ e,
              cols |-> [k \in outkeys |->
                          DsValue(ds, k, i,
                                  IF Len(VarDims(k)) > Len(SwathDims)
                                  THEN e ELSE EmptyIdx)]]]

\* satellite.to_dataframe(*varkeys, valid=valid, geo=False): one row per
\* pixel (only the valid ones if valid) and extra index
ToDataframeRows(ds, varkeys, valid) ==
    LET keys == _stdkeys \o varkeys
        ex == ExtraIdx(KeysDims(varkeys))
        pixs == SelectSeq2([i \in 1..Len(ds.pix) |-> (~valid) \/ ds.pix[i].valid],
                           Len(ds.pix), <<>>)
        outkeys == IF "valid" \in Range(varkeys) THEN Range(keys)
                   ELSE Range(keys) \ {"valid"}
    IN [r \in 1..(Len(pixs) * Len(ex)) |->
          LET i == pixs[((r - 1) \div Len(ex)) + 1]
              e == ex[((r - 1) % Len(ex)) + 1]
          IN [idx |-> PixIdx(i) @@ e,
              cols |-> [k \in outkeys |->
                          DsValue(ds, k, i,
                                  IF Len(VarDims(k)) > Len(SwathDims)
                                  THEN e ELSE EmptyIdx)]]]

NoValidPixels == "ValueError('No valid pixels')"

\* a faulty to_dataframe(geo=True) without the test for an empty table
ToGeoDataframe_NoEmptyTest(ds) ==
    LET gdf == ToDataframeRows(ds, _geokeys, TRUE)
    IN [exc |-> "none",
        rows |-> [r \in 1..Len(gdf) |->
                    [idx |-> gdf[r].idx,
                     geometry |-> EasyDataFramePolygon(gdf[r].cols)]]]

\* satellite.to_dataframe(geo=True): the geometry table of the valid
\* pixels, or the error raised when there is none
ToGeoDataframe(ds) ==
    LET gdf == ToDataframeRows(ds, _geokeys, TRUE)
    IN IF Len(gdf) = 0
       THEN [exc |-> NoValidPixels, rows |-> <<>>]
       ELSE [exc |-> "none",
             rows |-> [r \in 1..Len(gdf) |->
                         [idx |-> gdf[r].idx,
                          geometry |-> EasyDataFramePolygon(gdf[r].cols)]]]

(* ---------------------------- overlay and weights ---------------------- *)
RECURSIVE FlattenSeq(_, _)
\* the concatenation of the first n sequences of a sequence of sequences
FlattenSeq(ss, n) == IF n = 0 THEN <<>> ELSE FlattenSeq(ss, n - 1) \o ss[n]

\* a faulty overlay that keeps the whole pixel as the geometry of each
\* intersection
Overlay_KeepsPixel(geodf, cells) ==
    FlattenSeq(
      [r \in 1..Len(geodf) |->
         FlattenSeq(
           [c \in 1..Len(cells) |->
              IF BoxArea(BoxIntersection(geodf[r].geometry, cells[c].geometry)) > 0
              THEN <<[idx |-> geodf[r].idx @@ cells[c].idx,
                      geometry |-> geodf[r].geometry]>>
              ELSE <<>>],
           Len(cells))],
      Len(geodf))

\* a faulty overlay that keeps, of the pixels that intersect a grid cell,
\* the one that comes last
Overlay_LastPixel(geodf, cells) ==
    FlattenSeq(
      [r \in 1..Len(geodf) |->
         FlattenSeq(
           [c \in 1..Len(cells) |->
              LET g == BoxIntersection(geodf[r].geometry, cells[c].geometry)
              IN IF /\ BoxArea(g) > 0
                    /\ \A q \in (r + 1)..Len(geodf) :
                         BoxArea(BoxIntersection(geodf[q].geometry,
                                                 cells[c].geometry)) = 0
                 THEN <<[idx |-> geodf[r].idx @@ cells[c].idx, geometry |-> g]>>
                 ELSE <<>>],
           Len(cells))],
      Len(geodf))

\* geopandas.overlay(geodf, grid, how='intersection'): one feature per
\* (pixel, grid cell) pair whose intersection is a polygon, carrying the
\* index of both
Overlay(geodf, cells) ==
    FlattenSeq(
      [r \in 1..Len(geodf) |->
         FlattenSeq(
           [c \in 1..Len(cells) |->
              LET g == BoxIntersection(geodf[r].geometry, cells[c].geometry)
              IN IF BoxArea(g) > 0
                 THEN <<[idx |-> geodf[r].idx @@ cells[c].idx, geometry |-> g]>>
                 ELSE <<>>],
           Len(cells))],
      Len(geodf))

UnknownWeighting(option) == "KeyError('Unknown weighting option " \o option \o "')"

\* a faulty add_weights that weights every intersection 1 under 'area'
add_weights_AreaAsEqual(intx, option) ==
    IF option \in {"equal", "area"}
    THEN [exc |-> "none", ret |-> "None",
          intx |-> [r \in 1..Len(intx) |-> intx[r] @@ [weight |-> 1]]]
    ELSE [exc |-> UnknownWeighting(option), ret |-> "<raised>", intx |-> intx]

\* a faulty add_weights that takes an unknown option as 'equal'
add_weights_DefaultsToEqual(intx, option) ==
    IF option = "area"
    THEN [exc |-> "none", ret |-> "None",
          intx |-> [r \in 1..Len(intx) |->
                      intx[r] @@ [weight |-> BoxArea(intx[r].geometry)]]]
    ELSE [exc |-> "none", ret |-> "None",
          intx |-> [r \in 1..Len(intx) |-> intx[r] @@ [weight |-> 1]]]

\* a faulty add_weights that takes 'equal' for 'area' and 'area' for 'equal'
add_weights_SwappedOptions(intx, option) ==
    IF option = "area"
    THEN [exc |-> "none", ret |-> "None",
          intx |-> [r \in 1..Len(intx) |-> intx[r] @@ [weight |-> 1]]]
    ELSE IF option = "equal"
    THEN [exc |-> "none", ret |-> "None",
          intx |-> [r \in 1..Len(intx) |->
                      intx[r] @@ [weight |-> BoxArea(intx[r].geometry)]]]
    ELSE [exc |-> UnknownWeighting(option), ret |-> "<raised>", intx |-> intx]

\* satellite.add_weights(intx, option): the table with its weight column
\* and the value returned, or the table as it was and the error raised
add_weights(intx, option) ==
    IF option = "equal"
    THEN [exc |-> "none", ret |-> "None",
          intx |-> [r \in 1..Len(intx) |-> intx[r] @@ [weight |-> 1]]]
    ELSE IF option = "area"
    THEN [exc |-> "none", ret |-> "None",
          intx |-> [r \in 1..Len(intx) |->
                      intx[r] @@ [weight |-> BoxArea(intx[r].geometry)]]]
    ELSE [exc |-> UnknownWeighting(option), ret |-> "<raised>", intx |-> intx]

(* ---------------------------- grouped weighted average ----------------- *)
KeyOf(idx, by) == [d \in Range(by) |-> idx[d]]

RECURSIVE WeightedSum(_, _, _, _, _, _)
\* sum of value * weight over rows 1..n of group k whose value of c is not null
WeightedSum(values, weights, by, k, c, n) ==
    IF n = 0 THEN FInt(0)
    ELSE LET rest == WeightedSum(values, weights, by, k, c, n - 1)
             v == values[n].cols[c]
         IN IF KeyOf(values[n].idx, by) = k /\ ~IsNull(v)
            THEN FAdd(rest, FMulInt(v, weights[n])) ELSE rest

RECURSIVE NonNullWeight(_, _, _, _, _, _)
\* sum of the weights of rows 1..n of group k whose value of c is not null
NonNullWeight(values, weights, by, k, c, n) ==
    IF n = 0 THEN 0
    ELSE NonNullWeight(values, weights, by, k, c, n - 1)
         + (IF KeyOf(values[n].idx, by) = k /\ ~IsNull(values[n].cols[c])
            THEN weights[n] ELSE 0)

RECURSIVE GroupWeight(_, _, _, _, _)
\* sum of the weights of rows 1..n of group k
GroupWeight(values, weights, by, k, n) ==
    IF n = 0 THEN 0
    ELSE GroupWeight(values, weights, by, k, n - 1)
         + (IF KeyOf(values[n].idx, by) = k THEN weights[n] ELSE 0)

\* utils.grouped_weighted_avg(values, weights, by): per group of rows with
\* equal index along by, each column's sum(value * weight) / sum(weight)
\* over the rows whose value is not null, and the group's sum(weight) as
\* weight_sum
grouped_weighted_avg(values, weights, by) ==
    LET n == Len(values)
        cols == IF n = 0 THEN {} ELSE DOMAIN values[1].cols
    IN [k \in {KeyOf(values[r].idx, by) : r \in 1..n} |->
          [c \in cols \cup {"weight_sum"} |->
             IF c = "weight_sum"
             THEN FInt(GroupWeight(values, weights, by, k, n))
             ELSE LET w == NonNullWeight(values, weights, by, k, c, n)
                  IN IF w = 0 THEN Null
                     ELSE FDivInt(WeightedSum(values, weights, by, k, c, n), w)]]

(* ---------------------------- to_level3, one group --------------------- *)
\* intx.join(df): every intersection row with the rows of df of its pixel
JoinIntx(intx, df) ==
    FlattenSeq(
      [r \in 1..Len(intx) |->
         LET mine == SelectSeq(df, LAMBDA d :
                        KeyOf(d.idx, SwathDims) = KeyOf(intx[r].idx, SwathDims))
         IN [m \in 1..Len(mine) |->
               [idx |-> intx[r].idx @@ mine[m].idx,
                geometry |-> intx[r].geometry,
                weight |-> intx[r].weight,
                cols |-> [weight |-> FInt(intx[r].weight)] @@ mine[m].cols]]],
      Len(intx))

\* the dimensions of the output table of a dimension signature
OutDims(griddims, dimset, myidx) ==
    griddims \o SelectSeq(dimset, LAMBDA k : k \notin Range(myidx))

\* the body of the loop of to_level3 over dimsets: the table of one group
Level3Group(ds, intx, griddims, dimset, keys) ==
    LET myidx == SwathDims \o GridDims
        outdims == OutDims(griddims, dimset, myidx)
        df == JoinIntx(intx, ToDataframeRows(ds, keys, TRUE))
        gdf == grouped_weighted_avg(
                 [r \in 1..Len(df) |-> [idx |-> df[r].idx, cols |-> df[r].cols]],
                 [r \in 1..Len(df) |-> df[r].weight],
                 outdims)
        columns == Range(keys) \cup {"weight", "weight_sum"}
    IN [names |-> outdims,
        columns |-> columns,
        row |-> gdf,
        attrs |-> [key \in columns \cap Variables(ds) |-> DsAttrs(ds, key)]]

(* ---------------------------- dictionaries ----------------------------- *)
\* a Python dict: a sequence of [k, v] in insertion order, keys distinct
DictKeys(d) == [r \in 1..Len(d) |-> d[r].k]
DictHas(d, key) == \E r \in 1..Len(d) : d[r].k = key
DictGet(d, key) == d[CHOOSE r \in 1..Len(d) : d[r].k = key].v
\* a faulty assignment that adds an entry even where the key has one
DictSet_Append(d, key, val) == Append(d, [k |-> key, v |-> val])

DictSet(d, key, val) ==
    IF DictHas(d, key)
    THEN [r \in 1..Len(d) |-> IF d[r].k = key THEN [k |-> key, v |-> val] ELSE d[r]]
    ELSE Append(d, [k |-> key, v |-> val])

RECURSIVE SetDefaultAppend_Overwrite(_, _, _)
\* a faulty grouping in which a key replaces the keys of its group
SetDefaultAppend_Overwrite(d, keys, n) ==
    IF n = 0 THEN d
    ELSE DictSet(SetDefaultAppend_Overwrite(d, keys, n - 1),
                 VarDims(keys[n]), <<keys[n]>>)

RECURSIVE SetDefaultAppend(_, _, _)
\* for key in keys: d.setdefault(dimsOf(key), []).append(key)
SetDefaultAppend(d, keys, n) ==
    IF n = 0 THEN d
    ELSE LET prev == SetDefaultAppend(d, keys, n - 1)
             dims == VarDims(keys[n])
         IN DictSet(prev, dims,
                    (IF DictHas(prev, dims) THEN DictGet(prev, dims) ELSE <<>>)
                    \o <<keys[n]>>)

(* ---------------------------- inputs ----------------------------------- *)
\* satellite._defaultkeys and OMNO2._defaultkeys
_defaultkeys(cls) ==
    IF cls = "OMNO2"
    THEN <<"ColumnAmountNO2Trop", "AmfTrop", "ColumnAmountNO2Trop", "AmfTrop",
           "ScatteringWeight", "ScatteringWtPressure", "TropopausePressure",
           "TerrainPressure">>
    ELSE <<>>

\* pixel i of a swath whose footprints are 2 x 2, start at x = off and
\* advance by step (step 1: neighbours overlap)
LayoutBox(off, step, i) == <<off + (i - 1) * step, 0, off + (i - 1) * step + 2, 2>>

\* a pixel: its valid flag, footprint and retrieved values; v = 0 stands for
\* a null retrieval
MkPixel(off, step, i, valid, v) ==
    [valid |-> valid,
     box |-> LayoutBox(off, step, i),
     vals |-> [key \in {"ColumnAmountNO2Trop", "ScatteringWeight"} |->
                 IF key = "ColumnAmountNO2Trop"
                 THEN (EmptyIdx :> (IF v = 0 THEN Null ELSE FInt(v)))
                 ELSE [e \in Range(ExtraIdx(VarDims(key))) |->
                         FInt(v + e.nPresLevels)]]]

\* a swath file: present or not, its pixels and the metadata of its variables
MkFile(off, step, valids, vs, units) ==
    [exists |-> TRUE,
     pix |-> [i \in 1..Len(valids) |-> MkPixel(off, step, i, valids[i], vs[i])],
     attrs |-> [key \in {"ColumnAmountNO2Trop", "ScatteringWeight"} |-> units]]

Missing == [exists |-> FALSE, pix |-> <<>>, attrs |-> <<>>]

\* destination grids: two cells side by side (the first covers two pixels
\* and half of a third of the swath at offset 0), or one small cell
Grids ==
    { <<[idx |-> CellIdx(0, 0), geometry |-> <<0, 0, 5, 2>>],
        [idx |-> CellIdx(0, 1), geometry |-> <<5, 0, 8, 2>>]>>,
      <<[idx |-> CellIdx(0, 0), geometry |-> <<0, 0, 3, 2>>]>> }

Weightings == {"equal", "area", "bogus"}

\* the class and the variables asked of it (none: its defaults)
Requests ==
    { [cls |-> "satellite", varkeys |-> <<"ColumnAmountNO2Trop">>],
      [cls |-> "satellite", varkeys |-> <<"ColumnAmountNO2Trop", "ScatteringWeight">>],
      [cls |-> "satellite", varkeys |-> <<"ColumnAmountNO2Trop", "O3">>],
      [cls |-> "satellite", varkeys |-> <<>>],
      [cls |-> "OMNO2", varkeys |-> <<>>] }

\* the files of a batch: two good files with different footprints, values
\* and metadata, one whose only retrieval is null, one without a valid
\* pixel, and a path that cannot be opened
Disk ==
    [A |-> MkFile(0, 2, <<TRUE, TRUE>>, <<1, 2>>, "mol/cm2"),
     B |-> MkFile(3, 2, <<TRUE, TRUE>>, <<2, 1>>, "molec/cm2"),
     C |-> MkFile(0, 2, <<TRUE>>, <<0>>, "mol/cm2"),
     D |-> MkFile(0, 2, <<FALSE, FALSE>>, <<1, 1>>, "mol/cm2"),
     E |-> Missing]

RECURSIVE SeqsUpTo(_, _)
\* the sequences over S of length at most n
SeqsUpTo(S, n) ==
    IF n = 0 THEN {<<>>}
    ELSE LET shorter == SeqsUpTo(S, n - 1)
         IN shorter \cup {Append(q, x) : q \in shorter, x \in S}

\* a pixel's (valid, value) choices: invalid, valid and null, valid with a
\* value 1..MaxVal
PixelChoices == {<<FALSE, 1>>} \cup {<<TRUE, v>> : v \in 0..MaxVal}

\* every swath of 1..MaxPix pixels in one of the layouts
Swaths ==
    { MkFile(lay[1], lay[2], [i \in 1..Len(q) |-> q[i][1]],
             [i \in 1..Len(q) |-> q[i][2]], "mol/cm2") :
        lay \in {<<0, 2>>, <<1, 2>>, <<1, 1>>},
        q \in SeqsUpTo(PixelChoices, MaxPix) \ {<<>>} }


(* ---------------------------- instrument readers ----------------------- *)
MaxRaw == 3        \* most along-track rows of a raw instrument file

\* cloud fractions are held in tenths: CloudFraction <= 0.3 is <= 3
CloudFractionMax == 3
\* the default of isvalid of the VIIRS readers
IsValidDefault == 2

NoBbox == <<>>
\* swlon, swlat, nelon, nelat
Bboxes == {NoBbox, <<0, 0, 4, 4>>}

\* a faulty test that takes the box for open
InBbox_Open(px, bbox) ==
    /\ px.Latitude > bbox[2] /\ px.Latitude < bbox[4]
    /\ px.Longitude > bbox[1] /\ px.Longitude < bbox[3]

\* the centre of a pixel lies in the closed box
InBbox(px, bbox) ==
    /\ px.Latitude >= bbox[2] /\ px.Latitude <= bbox[4]
    /\ px.Longitude >= bbox[1] /\ px.Longitude <= bbox[3]

\* OMNO2.open_dataset: ds['valid'] before the bbox
OMNO2_valid(px) ==
    /\ (px.VcdQualityFlags % 2) = 0
    /\ px.XTrackQualityFlags = 0
    /\ px.CloudFraction <= CloudFractionMax

\* OMHCHO.open_dataset: ds['valid'] before the bbox
OMHCHO_valid(px) ==
    /\ px.MainDataQualityFlag = 0
    /\ (px.XtrackQualityFlagsExpanded % 2) = 0
    /\ px.AMFCloudFraction <= CloudFractionMax

\* OMO3PR.open_dataset: not every layer of O3 is null
OMO3PR_valid(px) == ~(\A l \in 1..Len(px.O3) : IsNull(px.O3[l]))

\* OMPROFOZ.open_dataset (RMS and AverageResiduals: their maximum over
\* the channels)
OMPROFOZ_valid(px) ==
    ~ \/ px.ExitStatus <= 0 \/ px.ExitStatus >= 10
      \/ px.RMS > 3
      \/ px.AverageResiduals >= 3
      \/ px.EffectiveCloudFraction >= CloudFractionMax

\* VIIRS_AERDT.prep_dataset
VIIRS_AERDT_valid(px, isvalid) ==
    /\ px.Land_Ocean_Quality_Flag >= isvalid
    /\ ~IsNull(px.Optical_Depth_Land_And_Ocean)

\* VIIRS_AERDB.prep_dataset
VIIRS_AERDB_valid(px, isvalid) ==
    /\ \/ px.Aerosol_Optical_Thickness_QA_Flag_Land >= isvalid
       \/ px.Aerosol_Optical_Thickness_QA_Flag_Ocean >= isvalid
    /\ ~IsNull(px.Aerosol_Optical_Thickness_550_Land_Ocean_Best_Estimate)

\* pixel centres inside, on the corner of and outside the box of Bboxes
Centres ==
    {[Longitude |-> 1, Latitude |-> 1], [Longitude |-> 4, Latitude |-> 4],
     [Longitude |-> 9, Latitude |-> 1]}

\* a record and its variants that differ from it in one field
OneOff(good, alts) == {good} \cup {[good EXCEPT ![fv[1]] = fv[2]] : fv \in alts}

\* the fields of a raw pixel the validity of each reader reads: a pixel
\* that passes every test of its reader and those that fail one of them
Quality(c) ==
    CASE c = "OMNO2" ->
           OneOff([VcdQualityFlags |-> 0, XTrackQualityFlags |-> 0,
                   CloudFraction |-> CloudFractionMax],
                  {<<"VcdQualityFlags", 1>>, <<"VcdQualityFlags", 2>>,
                   <<"XTrackQualityFlags", 1>>,
                   <<"CloudFraction", CloudFractionMax + 1>>})
      [] c = "OMHCHO" ->
           OneOff([MainDataQualityFlag |-> 0, XtrackQualityFlagsExpanded |-> 0,
                   AMFCloudFraction |-> CloudFractionMax],
                  {<<"MainDataQualityFlag", 1>>,
                   <<"XtrackQualityFlagsExpanded", 1>>,
                   <<"XtrackQualityFlagsExpanded", 2>>,
                   <<"AMFCloudFraction", CloudFractionMax + 1>>})
      [] c = "OMO3PR" ->
           [O3 : {<<Null, Null>>, <<Null, FInt(1)>>, <<FInt(1), FInt(1)>>}]
      [] c = "OMPROFOZ" ->
           OneOff([ExitStatus |-> 1, RMS |-> 3, AverageResiduals |-> 2,
                   EffectiveCloudFraction |-> CloudFractionMax - 1],
                  {<<"ExitStatus", 0>>, <<"ExitStatus", 10>>, <<"RMS", 4>>,
                   <<"AverageResiduals", 3>>,
                   <<"EffectiveCloudFraction", CloudFractionMax>>})
      [] c = "VIIRS_AERDT" ->
           [Land_Ocean_Quality_Flag : 1..3,
            Optical_Depth_Land_And_Ocean : {Null, FInt(1)}]
      [] c = "VIIRS_AERDB" ->
           OneOff([Aerosol_Optical_Thickness_QA_Flag_Land |-> 2,
                   Aerosol_Optical_Thickness_QA_Flag_Ocean |-> 1,
                   Aerosol_Optical_Thickness_550_Land_Ocean_Best_Estimate |-> FInt(1)],
                  {<<"Aerosol_Optical_Thickness_QA_Flag_Land", 1>>,
                   <<"Aerosol_Optical_Thickness_QA_Flag_Land", 3>>,
                   <<"Aerosol_Optical_Thickness_QA_Flag_Ocean", 3>>,
                   <<"Aerosol_Optical_Thickness_550_Land_Ocean_Best_Estimate", Null>>})

Readers == {"OMNO2", "OMHCHO", "OMO3PR", "OMPROFOZ", "VIIRS_AERDT", "VIIRS_AERDB"}
RawPixels(c) == {q @@ xy : q \in Quality(c), xy \in Centres}

\* the along-track rows whose centre is in the bbox
RowsInBbox(raw, bbox) == {t \in 1..Len(raw) : InBbox(raw[t], bbox)}
SetMin(S) == CHOOSE x \in S : \A y \in S : x <= y
SetMax(S) == CHOOSE x \in S : \A y \in S : x >= y

NaNSlice == "ValueError('cannot convert float NaN to integer')"

NoValuesIn == "ValueError('<path> has no values in <bbox>')"
EmptySelection == "<error of the array library on a selection of no rows>"

\* a faulty guard that tests the length for being zero
EmptyBboxGuard_Zero(times) == Cardinality(times) = 0

\* if len(times) < 0:
EmptyBboxGuard(times) == Cardinality(times) < 0

\* OMIL2.prep_dataset and the bbox part of VIIRS_AERDT.prep_dataset: the
\* rows from the first to the last with a centre in the bbox (ds.isel);
\* with no such row the bounds of the slice are NaN and taking it fails
prep_dataset(raw, bbox) ==
    IF bbox = NoBbox THEN [exc |-> "none", rows |-> raw]
    ELSE LET times == RowsInBbox(raw, bbox)
         IN IF EmptyBboxGuard(times) THEN [exc |-> NoValuesIn, rows |-> <<>>]
            ELSE IF times = {} THEN [exc |-> NaNSlice, rows |-> <<>>]
            ELSE [exc |-> "none",
                  rows |-> SubSeq(raw, SetMin(times), SetMax(times))]

\* the nTimes_1 axis of a raw OMI file: the edge rows, one more than the
\* along-track rows; row t lies between edge rows t and t + 1
EdgeRows(raw) == [e \in 1..(Len(raw) + 1) |-> e]

\* a faulty subsetting that slices nTimes_1 as it slices nTimes
prep_dataset_nTimes_1_AsNTimes(raw, bbox) ==
    IF bbox = NoBbox THEN EdgeRows(raw)
    ELSE LET times == RowsInBbox(raw, bbox)
         IN IF times = {} THEN <<>>
            ELSE SubSeq(EdgeRows(raw), SetMin(times), SetMax(times))

\* OMIL2.prep_dataset, the nTimes_1 axis it returns:
\* ds.isel(nTimes_1=slice(times.min(), times.max() + 2))
prep_dataset_nTimes_1(raw, bbox) ==
    IF bbox = NoBbox THEN EdgeRows(raw)
    ELSE LET times == RowsInBbox(raw, bbox)
         IN IF times = {} THEN <<>>
            ELSE SubSeq(EdgeRows(raw), SetMin(times), SetMax(times) + 1)

\* the bbox part of VIIRS_AERDB.prep_dataset, the set of its outcomes: the
\* slice is by label (ds.sel) and holds its upper bound, the row after the
\* last with a centre in the bbox; with no row in the bbox the label slice
\* from NaN to NaN either fails in the array library or selects no rows
VIIRS_AERDB_prep_dataset(raw, bbox) ==
    IF bbox = NoBbox THEN {[exc |-> "none", rows |-> raw]}
    ELSE LET lines == RowsInBbox(raw, bbox)
         IN IF EmptyBboxGuard(lines) THEN {[exc |-> NoValuesIn, rows |-> <<>>]}
            ELSE IF lines = {}
            THEN {[exc |-> EmptySelection, rows |-> <<>>],
                  [exc |-> "none", rows |-> <<>>]}
            ELSE {[exc |-> "none",
                   rows |-> SubSeq(raw, SetMin(lines),
                                   Min(SetMax(lines) + 1, Len(raw)))]}

NoValidPixelsIn == "ValueError('No valid pixels in <path> with <bbox>')"

(* ---------------------------- state ------------------------------------ *)
VARIABLES
    fs,          \* the files on disk, by path
    cls,         \* the class paths_to_level3 is called on
    paths,       \* its arguments
    grid,
    weighting,
    varkeys,
    as_dataset,
    pc,          \* where the call is
    i,           \* position in paths of the path being processed
    sat,         \* the path of the last dataset opened, or Unbound
    dimsets,     \* locals of to_level3
    geodf,
    intx,
    overlays,
    exc,         \* the exception raised and not yet handled, or "none"
    withdata,    \* locals of paths_to_level3
    nodata,
    outputs,
    ret,         \* what the call returned or raised
    rcls,        \* the reader whose open_dataset is called, or "none"
    rraw,        \* the raw file: a pixel per along-track row
    rbbox,       \* the bbox asked for
    risvalid,    \* the isvalid asked for (VIIRS readers)
    rpc,         \* "start", "returned" or "raised"
    rvalid,      \* ds['valid'] as built, per retained row
    rwarned,     \* the warning issued, or "none"
    rexc,        \* the exception raised, or "none"
    rnTimes_1,   \* the nTimes_1 axis of the dataset an OMI reader returns
    fn,          \* the function called on its own, or "none"
    fargs,       \* its arguments
    fout         \* what it returned, or Pending

reader == <<rcls, rraw, rbbox, risvalid, rpc, rvalid, rwarned, rexc, rnTimes_1>>

calls == <<fn, fargs, fout>>

vars == <<fs, cls, paths, grid, weighting, varkeys, as_dataset, pc, i, sat,
          dimsets, geodf, intx, overlays, exc, withdata, nodata, outputs, ret,
          reader, calls>>

inputs == <<fs, cls, paths, grid, weighting, varkeys, as_dataset>>
locals == <<dimsets, geodf, intx, overlays>>

Unbound == "<unbound>"
NoReturn == [kind |-> "running"]

Start ==
    /\ pc = "loop" /\ i = 1 /\ sat = Unbound
    /\ dimsets = <<>> /\ geodf = <<>> /\ intx = <<>> /\ overlays = <<>>
    /\ exc = "none"
    /\ withdata = <<>> /\ nodata = <<>> /\ outputs = <<>>
    /\ ret = NoReturn

\* a batch over the files of Disk
InitBatch ==
    /\ fs = Disk
    /\ paths \in SeqsUpTo(DOMAIN Disk, MaxPaths)
    /\ grid \in {g \in Grids : Len(g) = 2}
    /\ weighting \in Weightings
    /\ \E rq \in {r \in Requests : r.cls = "satellite" /\ r.varkeys # <<>>} :
          cls = rq.cls /\ varkeys = rq.varkeys
    /\ as_dataset \in BOOLEAN
    /\ Start

\* a batch of one file, any swath, under a weighting add_weights knows
InitSwath ==
    /\ \E f \in Swaths : fs = [S |-> f]
    /\ paths = <<"S">>
    /\ grid \in Grids
    /\ weighting \in {"equal", "area"}
    /\ \E rq \in Requests : cls = rq.cls /\ varkeys = rq.varkeys
    /\ as_dataset = FALSE
    /\ Start

\* no reader call is under way
ReaderIdle ==
    /\ rcls = "none" /\ rraw = <<>> /\ rbbox = NoBbox
    /\ risvalid = IsValidDefault /\ rpc = "idle"
    /\ rvalid = <<>> /\ rwarned = "none" /\ rexc = "none"
    /\ rnTimes_1 = <<>>

Pending == [done |-> FALSE]

\* no function is called on its own
CallsIdle == fn = "none" /\ fargs = <<>> /\ fout = Pending

Init == (InitBatch \/ InitSwath) /\ ReaderIdle /\ CallsIdle

path == paths[i]
ds == fs[sat]

(* ---------------------------- to_level3 -------------------------------- *)
FileNotFound(p) == "FileNotFoundError(2, 'No such file or directory: " \o p \o "')"
MissingKey(key) == "KeyError('" \o key \o "')"

\* sat = cls.open_dataset(path, bbox=bbox, **kwargs)
OpenDataset ==
    /\ pc = "loop" /\ i <= Len(paths)
    /\ IF fs[path].exists
       THEN sat' = path /\ exc' = "none" /\ pc' = "dimsets"
       ELSE sat' = sat /\ exc' = FileNotFound(path) /\ pc' = "except"
    /\ dimsets' = <<>> /\ geodf' = <<>> /\ intx' = <<>> /\ overlays' = <<>>
    /\ UNCHANGED <<reader, calls, inputs, i, withdata, nodata, outputs, ret>>

\* the keys to_level3 works on: varkeys, or the default keys the dataset has
EffectiveKeys(c, d, keys) ==
    IF Len(keys) = 0
    THEN SelectSeq(_defaultkeys(c), LAMBDA k : k \in DataVars(d))
    ELSE keys

\* to_level3: partition of the keys by the dimensions of their variable
MakeDimsets ==
    /\ pc = "dimsets"
    /\ LET keys == EffectiveKeys(cls, ds, varkeys)
           bad == {n \in 1..Len(keys) : keys[n] \notin Variables(ds)}
       IN IF bad = {}
          THEN /\ dimsets' = SetDefaultAppend(<<>>, keys, Len(keys))
               /\ exc' = "none" /\ pc' = "geometry"
          ELSE /\ dimsets' = dimsets
               /\ exc' = MissingKey(keys[CHOOSE n \in bad : \A m \in bad : n <= m])
               /\ pc' = "except"
    /\ UNCHANGED <<reader, calls, inputs, i, sat, geodf, intx, overlays, withdata, nodata,
                   outputs, ret>>

\* to_level3: geodf = self.to_dataframe(geo=True); fails without valid pixels
MakeGeometry ==
    /\ pc = "geometry"
    /\ LET g == ToGeoDataframe(ds)
       IN IF g.exc = "none"
          THEN geodf' = g.rows /\ exc' = "none" /\ pc' = "overlay"
          ELSE geodf' = geodf /\ exc' = g.exc /\ pc' = "except"
    /\ UNCHANGED <<reader, calls, inputs, i, sat, dimsets, intx, overlays, withdata, nodata,
                   outputs, ret>>

\* to_level3: intx = gpd.overlay(geodf, grid, how='intersection')
MakeOverlay ==
    /\ pc = "overlay"
    /\ intx' = Overlay(geodf, grid)
    /\ pc' = "weights"
    /\ UNCHANGED <<reader, calls, inputs, i, sat, dimsets, geodf, overlays, exc, withdata,
                   nodata, outputs, ret>>

\* to_level3: self.add_weights(intx, option=weighting)
AddWeights ==
    /\ pc = "weights"
    /\ LET w == add_weights(intx, weighting)
       IN /\ intx' = w.intx
          /\ exc' = w.exc
          /\ pc' = IF w.exc = "none" THEN "groups" ELSE "except"
    /\ UNCHANGED <<reader, calls, inputs, i, sat, dimsets, geodf, overlays, withdata, nodata,
                   outputs, ret>>

\* to_level3: one turn of the loop over dimsets
AggregateGroup ==
    /\ pc = "groups"
    /\ Len(overlays) < Len(dimsets)
    /\ LET g == dimsets[Len(overlays) + 1]
       IN overlays' = DictSet(overlays, g.k,
                              Level3Group(ds, intx, GridDims, g.k, g.v))
    /\ UNCHANGED <<reader, calls, inputs, pc, i, sat, dimsets, geodf, intx, exc, withdata,
                   nodata, outputs, ret>>

(* ---------------------------- paths_to_level3 -------------------------- *)
\* withdata[path] = sat.to_level3(...)
StoreResult ==
    /\ pc = "groups"
    /\ Len(overlays) = Len(dimsets)
    /\ withdata' = DictSet(withdata, path, overlays)
    /\ i' = i + 1
    /\ pc' = "loop"
    /\ UNCHANGED <<reader, calls, inputs, sat, locals, exc, nodata, outputs, ret>>

\* a faulty handler that swallows the exception without recording it
Except_Unrecorded ==
    /\ pc = "except"
    /\ exc' = "none"
    /\ i' = i + 1
    /\ pc' = "loop"
    /\ UNCHANGED <<reader, calls, inputs, sat, locals, withdata, nodata, outputs, ret>>

\* except Exception as e: nodata[path] = repr(e)
Except ==
    /\ pc = "except"
    /\ nodata' = DictSet(nodata, path, exc)
    /\ exc' = "none"
    /\ i' = i + 1
    /\ pc' = "loop"
    /\ UNCHANGED <<reader, calls, inputs, sat, locals, withdata, outputs, ret>>

TableAttrs(t, key) == IF key \in DOMAIN t.attrs THEN t.attrs[key] ELSE NoAttrs

RECURSIVE UnionColumns(_, _)
UnionColumns(dimdfs, n) ==
    IF n = 0 THEN {} ELSE UnionColumns(dimdfs, n - 1) \cup dimdfs[n].columns

\* pd.concat(dimdfs, keys=keys, names=['path']): the rows of every table
\* under its path, a column a table lacks filled with null
Concat(dimdfs, keys) ==
    LET columns == UnionColumns(dimdfs, Len(dimdfs))
    IN FlattenSeq(
         [f \in 1..Len(dimdfs) |->
            LET ks == SetToSeq(DOMAIN dimdfs[f].row)
            IN [r \in 1..Len(ks) |->
                  [idx |-> [path |-> keys[f]] @@ ks[r],
                   cols |-> [c \in columns |->
                               IF c \in dimdfs[f].columns
                               THEN dimdfs[f].row[ks[r]][c] ELSE Null]]]],
         Len(dimdfs))

\* a faulty second pass that keeps the table of the last file only
CombineGroup_LastWins(dimdfs, keys) == dimdfs[Len(dimdfs)]

\* a faulty second pass that takes a weight_sum of zero for one
CombineGroup_UnitFloor(dimdfs, keys) ==
    LET combinedf == Concat(dimdfs, keys)
        outdims == dimdfs[1].names
        columns == UnionColumns(dimdfs, Len(dimdfs)) \cup {"weight_sum"}
    IN [names |-> outdims,
        columns |-> columns,
        row |-> grouped_weighted_avg(
                  combinedf,
                  [r \in 1..Len(combinedf) |->
                     Max(1, combinedf[r].cols["weight_sum"].n)],
                  outdims),
        attrs |-> [key \in columns \cap dimdfs[1].columns |->
                     TableAttrs(dimdfs[1], key)]]

\* the body of the loop of paths_to_level3 over dimdatasets: the tables of
\* one dimension signature averaged again with weight_sum as the weight;
\* the metadata is that of the first table
CombineGroup(dimdfs, keys) ==
    LET combinedf == Concat(dimdfs, keys)
        outdims == dimdfs[1].names
        columns == UnionColumns(dimdfs, Len(dimdfs)) \cup {"weight_sum"}
    IN [names |-> outdims,
        columns |-> columns,
        row |-> grouped_weighted_avg(
                  combinedf,
                  [r \in 1..Len(combinedf) |-> combinedf[r].cols["weight_sum"].n],
                  outdims),
        attrs |-> [key \in columns \cap dimdfs[1].columns |->
                     TableAttrs(dimdfs[1], key)]]

RECURSIVE GroupByDims(_, _, _)
\* dimdatasets and dimpaths: per dimension signature the tables of the
\* results that have it, and their paths, in the order of wd
GroupByDims(wd, n, m) ==
    IF n = 0 THEN <<>>
    ELSE IF m = 0 THEN GroupByDims(wd, n - 1, IF n = 1 THEN 0 ELSE Len(wd[n - 1].v))
    ELSE LET prev == GroupByDims(wd, n, m - 1)
             e == wd[n].v[m]
             old == IF DictHas(prev, e.k) THEN DictGet(prev, e.k)
                    ELSE [dfs |-> <<>>, paths |-> <<>>]
         IN DictSet(prev, e.k, [dfs |-> Append(old.dfs, e.v),
                                paths |-> Append(old.paths, wd[n].k)])

\* the outputs of paths_to_level3 for the per-file results wd
CombineAll(wd) ==
    LET dd == GroupByDims(wd, Len(wd), IF Len(wd) = 0 THEN 0 ELSE Len(wd[Len(wd)].v))
    IN [g \in 1..Len(dd) |->
          [k |-> dd[g].k, v |-> CombineGroup(dd[g].v.dfs, dd[g].v.paths)]]

\* paths_to_level3 after its loop over paths: the second pass, and the
\* return of the tables and the failure report
Combine ==
    /\ pc = "loop" /\ i > Len(paths)
    /\ outputs' = CombineAll(withdata)
    /\ IF as_dataset
       THEN pc' = "dataset" /\ ret' = ret
       ELSE /\ pc' = "done"
            /\ ret' = [kind |-> "tables", outputs |-> outputs', nodata |-> nodata]
    /\ UNCHANGED <<reader, calls, inputs, i, sat, locals, exc, withdata, nodata>>

\* the index of the full grid times the extra indices a table has
FullIndex(t, cells) ==
    {cells[c].idx @@ e : c \in 1..Len(cells),
                         e \in {[d \in (DOMAIN k) \ Range(GridDims) |-> k[d]] :
                                  k \in DOMAIN t.row}}

\* xr.Dataset.from_dataframe(outdf) reindexed on the grid: a cell without
\* data is null
Reindex(t, cells) ==
    [k \in FullIndex(t, cells) \cup DOMAIN t.row |->
       IF k \in DOMAIN t.row THEN t.row[k] ELSE [c \in t.columns |-> Null]]

RECURSIVE OutputColumns(_, _)
OutputColumns(out, n) ==
    IF n = 0 THEN {} ELSE OutputColumns(out, n - 1) \cup out[n].v.columns

NameErrorSat == "UnboundLocalError('sat')"
InvalidReindex == "ValueError('invalid reindex dimensions')"

\* paths_to_level3, as_dataset: the merged dataset on the full grid, its
\* variables' metadata taken from the dataset opened last, the failures in
\* its history
ToDataset ==
    /\ pc = "dataset"
    /\ LET columns == OutputColumns(outputs, Len(outputs))
       IN IF columns # {} /\ sat = Unbound
          THEN ret' = [kind |-> "raised", exc |-> NameErrorSat]
          ELSE ret' = [kind |-> "dataset",
                       data |-> [g \in 1..Len(outputs) |->
                                   [k |-> outputs[g].k,
                                    v |-> Reindex(outputs[g].v, grid)]],
                       attrs |-> [key \in columns |->
                                    IF key \in Variables(ds)
                                    THEN DsAttrs(ds, key) ELSE NoAttrs],
                       history |-> nodata]
    /\ pc' = "done"
    /\ UNCHANGED <<reader, calls, inputs, i, sat, locals, exc, withdata, nodata, outputs>>

\* paths_to_level3, as_dataset, nothing to merge: xarray releases that
\* refuse to reindex a dimension the merged dataset lacks raise here
ReindexRejected ==
    /\ pc = "dataset"
    /\ outputs = <<>>
    /\ ret' = [kind |-> "raised", exc |-> InvalidReindex]
    /\ pc' = "done"
    /\ UNCHANGED <<reader, calls, inputs, i, sat, locals, exc, withdata, nodata, outputs>>

Next ==
    \/ OpenDataset
    \/ MakeDimsets
    \/ MakeGeometry
    \/ MakeOverlay
    \/ AddWeights
    \/ AggregateGroup
    \/ StoreResult
    \/ Except
    \/ Combine
    \/ ToDataset
    \/ ReindexRejected

Spec == Init /\ [][Next]_vars

(* ---------------------------- to_level3 on its own -------------------- *)
\* sat.to_level3(grid, weighting=weighting) of one file, any swath, on a
\* grid of two cells for a variable of each dimension signature
InitLevel3 ==
    /\ \E f \in Swaths : fs = [S |-> f]
    /\ paths = <<"S">>
    /\ grid \in {g \in Grids : Len(g) = 2}
    /\ weighting \in {"equal", "area"}
    /\ cls = "satellite"
    /\ varkeys = <<"ColumnAmountNO2Trop", "ScatteringWeight">>
    /\ as_dataset = FALSE
    /\ Start
    /\ ReaderIdle /\ CallsIdle

NextLevel3 ==
    \/ OpenDataset
    \/ MakeDimsets
    \/ MakeGeometry
    \/ MakeOverlay
    \/ AddWeights
    \/ AggregateGroup
    \/ StoreResult
    \/ Except

SpecLevel3 == InitLevel3 /\ [][NextLevel3]_vars

(* ---------------------------- reader calls ----------------------------- *)
\* no batch is under way
BatchIdle ==
    /\ fs = [p \in {} |-> Missing] /\ cls = "satellite" /\ paths = <<>>
    /\ grid = <<>> /\ weighting = "equal" /\ varkeys = <<>>
    /\ as_dataset = FALSE
    /\ pc = "idle" /\ i = 1 /\ sat = Unbound
    /\ dimsets = <<>> /\ geodf = <<>> /\ intx = <<>> /\ overlays = <<>>
    /\ exc = "none"
    /\ withdata = <<>> /\ nodata = <<>> /\ outputs = <<>>
    /\ ret = NoReturn

\* cls.open_dataset(path, bbox) on a raw file of cls
InitReaders ==
    /\ BatchIdle /\ CallsIdle
    /\ rcls \in Readers
    /\ rraw \in SeqsUpTo(RawPixels(rcls), MaxRaw) \ {<<>>}
    /\ rbbox \in Bboxes
    /\ risvalid \in IF rcls \in {"VIIRS_AERDT", "VIIRS_AERDB"}
                    THEN {IsValidDefault, IsValidDefault + 1}
                    ELSE {IsValidDefault}
    /\ rpc = "start"
    /\ rvalid = <<>> /\ rwarned = "none" /\ rexc = "none"
    /\ rnTimes_1 = <<>>

AnyValid(valid) == \E t \in 1..Len(valid) : valid[t]

\* ds['valid'] of the OMI readers: the quality test, and with a bbox the
\* centre in the bbox
OMIValid(rows, bbox, quality) ==
    [t \in 1..Len(rows) |->
        /\ quality[t]
        /\ bbox # NoBbox => InBbox(rows[t], bbox)]

Raised(e) == [pc |-> "raised", exc |-> e, valid |-> <<>>, warned |-> "none"]
Returned(valid, w) ==
    [pc |-> "returned", exc |-> "none", valid |-> valid, warned |-> w]

\* OMNO2.open_dataset: warns of no valid pixel and returns
OMNO2_open_dataset(raw, bbox) ==
    LET p == prep_dataset(raw, bbox)
        valid == OMIValid(p.rows, bbox,
                          [t \in 1..Len(p.rows) |-> OMNO2_valid(p.rows[t])])
    IN  IF p.exc # "none" THEN Raised(p.exc)
        ELSE IF ~AnyValid(valid) THEN Returned(valid, "No valid pixels")
        ELSE Returned(valid, "none")

\* a faulty end that warns, as OMNO2 does, where it should raise
RaiseIfNoValid_Warns(valid) ==
    IF ~AnyValid(valid) THEN Returned(valid, "No valid pixels")
    ELSE Returned(valid, "none")

\* the end of OMHCHO, OMO3PR and OMPROFOZ.open_dataset
RaiseIfNoValid(valid) ==
    IF ~AnyValid(valid)
    THEN [pc |-> "raised", exc |-> NoValidPixelsIn, valid |-> valid,
          warned |-> "none"]
    ELSE Returned(valid, "none")

OMHCHO_open_dataset(raw, bbox) ==
    LET p == prep_dataset(raw, bbox)
        valid == OMIValid(p.rows, bbox,
                          [t \in 1..Len(p.rows) |-> OMHCHO_valid(p.rows[t])])
    IN  IF p.exc # "none" THEN Raised(p.exc) ELSE RaiseIfNoValid(valid)

OMO3PR_open_dataset(raw, bbox) ==
    LET p == prep_dataset(raw, bbox)
        valid == OMIValid(p.rows, bbox,
                          [t \in 1..Len(p.rows) |-> OMO3PR_valid(p.rows[t])])
    IN  IF p.exc # "none" THEN Raised(p.exc) ELSE RaiseIfNoValid(valid)

OMPROFOZ_open_dataset(raw, bbox) ==
    LET p == prep_dataset(raw, bbox)
        valid == OMIValid(p.rows, bbox,
                          [t \in 1..Len(p.rows) |-> OMPROFOZ_valid(p.rows[t])])
    IN  IF p.exc # "none" THEN Raised(p.exc) ELSE RaiseIfNoValid(valid)

\* VIIRS_L2.open_dataset with VIIRS_AERDT.prep_dataset: no test of valid
VIIRS_AERDT_open_dataset(raw, bbox, isvalid) ==
    LET p == prep_dataset(raw, bbox)
    IN  IF p.exc # "none" THEN Raised(p.exc)
        ELSE Returned([t \in 1..Len(p.rows) |->
                          VIIRS_AERDT_valid(p.rows[t], isvalid)], "none")

\* VIIRS_L2.open_dataset with VIIRS_AERDB.prep_dataset: no test of valid
VIIRS_AERDB_open_dataset(raw, bbox, isvalid) ==
    { IF p.exc # "none" THEN Raised(p.exc)
      ELSE Returned([t \in 1..Len(p.rows) |->
                        VIIRS_AERDB_valid(p.rows[t], isvalid)], "none") :
        p \in VIIRS_AERDB_prep_dataset(raw, bbox) }

batch == <<fs, cls, paths, grid, weighting, varkeys, as_dataset, pc, i, sat,
           dimsets, geodf, intx, overlays, exc, withdata, nodata, outputs,
           ret>>

\* the readers that subset with OMIL2.prep_dataset
OMIReaders == {"OMNO2", "OMHCHO", "OMO3PR", "OMPROFOZ"}

\* the call ends as r says
Finish(r) ==
    /\ rpc' = r.pc /\ rvalid' = r.valid /\ rwarned' = r.warned
    /\ rexc' = r.exc
    /\ rnTimes_1' = IF rcls \in OMIReaders /\ prep_dataset(rraw, rbbox).exc = "none"
                    THEN prep_dataset_nTimes_1(rraw, rbbox)
                    ELSE <<>>
    /\ UNCHANGED <<batch, calls, rcls, rraw, rbbox, risvalid>>

OpenOMNO2 ==
    /\ rpc = "start" /\ rcls = "OMNO2"
    /\ Finish(OMNO2_open_dataset(rraw, rbbox))

OpenOMHCHO ==
    /\ rpc = "start" /\ rcls = "OMHCHO"
    /\ Finish(OMHCHO_open_dataset(rraw, rbbox))

OpenOMO3PR ==
    /\ rpc = "start" /\ rcls = "OMO3PR"
    /\ Finish(OMO3PR_open_dataset(rraw, rbbox))

OpenOMPROFOZ ==
    /\ rpc = "start" /\ rcls = "OMPROFOZ"
    /\ Finish(OMPROFOZ_open_dataset(rraw, rbbox))

OpenVIIRS_AERDT ==
    /\ rpc = "start" /\ rcls = "VIIRS_AERDT"
    /\ Finish(VIIRS_AERDT_open_dataset(rraw, rbbox, risvalid))

OpenVIIRS_AERDB ==
    /\ rpc = "start" /\ rcls = "VIIRS_AERDB"
    /\ \E r \in VIIRS_AERDB_open_dataset(rraw, rbbox, risvalid) : Finish(r)

NextReaders ==
    \/ OpenOMNO2
    \/ OpenOMHCHO
    \/ OpenOMO3PR
    \/ OpenOMPROFOZ
    \/ OpenVIIRS_AERDT
    \/ OpenVIIRS_AERDB

SpecReaders == InitReaders /\ [][NextReaders]_vars

(* ---------------------------- vertical interpolation ------------------- *)
MaxPres == 5       \* largest pressure of a source level

Reverse(q) == [k \in 1..Len(q) |-> q[Len(q) + 1 - k]]

\* the value at x of the line through nodes a and b, a.x < b.x
Lerp(a, b, x) == Frac(a.v.n * (b.x - x) + b.v.n * (x - a.x), b.x - a.x)

\* linear interpolation at x over nodes of ascending coordinate, the value
\* of the nearest end outside their range
Interp1(pts, x) ==
    IF Len(pts) = 0 THEN Null
    ELSE IF x <= pts[1].x THEN pts[1].v
    ELSE IF x >= pts[Len(pts)].x THEN pts[Len(pts)].v
    ELSE LET k == CHOOSE k \in 1..(Len(pts) - 1) : pts[k].x <= x /\ x < pts[k + 1].x
         IN Lerp(pts[k], pts[k + 1], x)

\* utils.coord_interp(target_coord, source_coord, source_value, ascending):
\* source_value interpolated linearly in the coordinate onto every target
\* coordinate; a descending axis is turned round first, and the samples
\* that are null are left out of the nodes
coord_interp(target_coord, source_coord, source_value, ascending) ==
    LET all == [k \in 1..Len(source_coord) |->
                  [x |-> source_coord[k], v |-> source_value[k]]]
        pts == SelectSeq(IF ascending THEN all ELSE Reverse(all),
                         LAMBDA p : ~IsNull(p.v))
    IN [l \in 1..Len(target_coord) |-> Interp1(pts, target_coord[l])]

\* a faulty OMNO2.cmaq_sw that declares the pressure axis ascending
OMNO2_cmaq_sw_Ascending(qpres_hpa, sat_press, sw, tropopause) ==
    LET interp == coord_interp(qpres_hpa, sat_press, sw, TRUE)
    IN [interp |-> interp,
        q_sw |-> [l \in 1..Len(qpres_hpa) |->
                    IF tropopause < qpres_hpa[l] THEN interp[l] ELSE Null]]

\* OMNO2.cmaq_sw: the scattering weights on the layers of the model, kept
\* where the layer is below the tropopause; with it what coord_interp gave
OMNO2_cmaq_sw(qpres_hpa, sat_press, sw, tropopause) ==
    LET interp == coord_interp(qpres_hpa, sat_press, sw, FALSE)
    IN [interp |-> interp,
        q_sw |-> [l \in 1..Len(qpres_hpa) |->
                    IF tropopause < qpres_hpa[l] THEN interp[l] ELSE Null]]

\* the source axis OMHCHO.cmaq_sw hands to coord_interp: the lowest level
\* takes the pressure of the lowest layer of the model
OMHCHO_sat_press(qpres_hpa, levels) == [levels EXCEPT ![1] = qpres_hpa[1]]

\* OMHCHO.cmaq_sw
OMHCHO_cmaq_sw(qpres_hpa, levels, sw) ==
    LET interp == coord_interp(qpres_hpa, OMHCHO_sat_press(qpres_hpa, levels),
                               sw, FALSE)
    IN [interp |-> interp, q_sw |-> interp]

Descending(q) == \A k \in 1..(Len(q) - 1) : q[k] > q[k + 1]

\* three source levels of descending pressure, two model layers of
\* descending pressure that may lie beyond either end, and the scattering
\* weight of each level, null or not
SourceAxes == {q \in [1..3 -> 1..MaxPres] : Descending(q)}
TargetAxes == {q \in [1..2 -> 0..(MaxPres + 1)] : Descending(q)}
SourceValues == [1..3 -> {Null, FInt(1), FInt(3)}]

(* ---------------------------- interpolated corners --------------------- *)
\* Positions on an index axis are held in half steps: 2 * i for centre i
\* and 2 * i - 1 for the midpoint i - 0.5.
MaxAxis == 3       \* most centre indices along one axis of a swath

\* the index axes of a swath: consecutive indices, starting at 0 or, after
\* the along-track slicing of a bbox, later
IndexAxes == {[k \in 1..n |-> first + k - 1] : first \in 0..1, n \in 1..MaxAxis}

\* faulty edges that reach half a step beyond the first and last centre
Edges_Extrapolated(axis) ==
    IF Len(axis) = 0 THEN <<>>
    ELSE <<2 * axis[1] - 1>>
           \o [k \in 1..(Len(axis) - 1) |-> 2 * axis[k + 1] - 1]
           \o <<2 * axis[Len(axis)] + 1>>

\* np.concatenate([axis[:1], axis[1:] - 0.5, axis[-1:]])
Edges(axis) ==
    IF Len(axis) = 0 THEN <<>>
    ELSE <<2 * axis[1]>>
           \o [k \in 1..(Len(axis) - 1) |-> 2 * axis[k + 1] - 1]
           \o <<2 * axis[Len(axis)]>>

\* s[:-1] and s[1:]
AllButLast(s) == SubSeq(s, 1, Len(s) - 1)
AllButFirst(s) == SubSeq(s, 2, Len(s))

\* the edge nodes a table of corner slices gives pixel (a, b), by corner
CornerNodes(slices, a, b) ==
    [key \in DOMAIN slices |-> <<slices[key][1][a], slices[key][2][b]>>]

\* OMO3PR.open_dataset: edge axes and the corners dictionary
OMO3PR_corners(times, xtrack) ==
    LET times_edges == Edges(times)
        xtrack_edges == Edges(xtrack)
        corners == [ll |-> <<AllButLast(times_edges), AllButLast(xtrack_edges)>>,
                    ul |-> <<AllButLast(times_edges), AllButFirst(xtrack_edges)>>,
                    lu |-> <<AllButFirst(times_edges), AllButLast(xtrack_edges)>>,
                    uu |-> <<AllButFirst(times_edges), AllButFirst(xtrack_edges)>>]
    IN [along |-> times_edges, across |-> xtrack_edges,
        corners |-> [ab \in (1..Len(times)) \X (1..Len(xtrack)) |->
                       CornerNodes(corners, ab[1], ab[2])]]

\* VIIRS_AERDT.prep_dataset and VIIRS_AERDB.prep_dataset: edge axes and
\* corner_slices
VIIRS_corners(scanline, pixel) ==
    LET scanline_edges == Edges(scanline)
        pixel_edges == Edges(pixel)
        corner_slices ==
          [ll |-> <<AllButLast(scanline_edges), AllButLast(pixel_edges)>>,
           lu |-> <<AllButLast(scanline_edges), AllButFirst(pixel_edges)>>,
           uu |-> <<AllButFirst(scanline_edges), AllButFirst(pixel_edges)>>,
           ul |-> <<AllButFirst(scanline_edges), AllButLast(pixel_edges)>>]
    IN [along |-> scanline_edges, across |-> pixel_edges,
        corners |-> [ab \in (1..Len(scanline)) \X (1..Len(pixel)) |->
                       CornerNodes(corner_slices, ab[1], ab[2])]]

CornerReaders == {"OMO3PR", "VIIRS_AERDT", "VIIRS_AERDB"}

(* ---------------------------- functions called on their own ------------ *)
MaxRows == 3       \* most rows of a table handed to grouped_weighted_avg
MaxW == 2          \* largest weight of a row (an add_weights of a subclass
                   \* may give any weight, zero included)

\* a row of the joined table of to_level3: its grid cell, one variable v
\* and its weight
AvgRowSet ==
    {[idx |-> CellIdx(0, c),
      cols |-> [weight |-> FInt(w), v |-> val],
      weight |-> w] :
       c \in 0..1, val \in {Null, FInt(1), FInt(2)}, w \in 0..MaxW}

\* the table of one file built from rows: grouped_weighted_avg as
\* to_level3 calls it
AvgTable(rows) ==
    [names |-> GridDims,
     columns |-> {"v", "weight", "weight_sum"},
     row |-> grouped_weighted_avg(
               [r \in 1..Len(rows) |-> [idx |-> rows[r].idx, cols |-> rows[r].cols]],
               [r \in 1..Len(rows) |-> rows[r].weight],
               GridDims),
     attrs |-> [key \in {} |-> NoAttrs]]

InitCalls ==
    /\ BatchIdle /\ ReaderIdle
    /\ \/ /\ fn = "to_level3.grouped_weighted_avg"
          /\ fargs \in [rows : SeqsUpTo(AvgRowSet, MaxRows) \ {<<>>}]
       \/ /\ fn = "paths_to_level3.grouped_weighted_avg"
          /\ fargs \in [a : SeqsUpTo(AvgRowSet, 2) \ {<<>>},
                       b : SeqsUpTo(AvgRowSet, 1) \ {<<>>}]
       \/ /\ fn = "OMNO2.cmaq_sw"
          /\ fargs \in [qpres_hpa : TargetAxes, sat_press : SourceAxes,
                        sw : SourceValues, tropopause : {1, 3}]
       \/ /\ fn = "OMHCHO.cmaq_sw"
          /\ fargs \in [qpres_hpa : TargetAxes, sat_press : SourceAxes,
                        sw : SourceValues]
          /\ Descending(OMHCHO_sat_press(fargs.qpres_hpa, fargs.sat_press))
       \/ /\ fn = "corners"
          /\ fargs \in [cls : CornerReaders, along : IndexAxes, across : IndexAxes]
    /\ fout = Pending

Return(v) ==
    /\ fout' = [done |-> TRUE, val |-> v]
    /\ UNCHANGED <<batch, reader, fn, fargs>>

\* the grouped weighted average of to_level3 on the joined table
FirstPass ==
    /\ fn = "to_level3.grouped_weighted_avg" /\ ~fout.done
    /\ Return(AvgTable(fargs.rows).row)

\* the second pass of paths_to_level3 on the tables of two files
SecondPass ==
    /\ fn = "paths_to_level3.grouped_weighted_avg" /\ ~fout.done
    /\ Return(CombineGroup(<<AvgTable(fargs.a), AvgTable(fargs.b)>>,
                           <<"a", "b">>).row)

CallOMNO2_cmaq_sw ==
    /\ fn = "OMNO2.cmaq_sw" /\ ~fout.done
    /\ Return(OMNO2_cmaq_sw(fargs.qpres_hpa, fargs.sat_press, fargs.sw,
                             fargs.tropopause))

CallOMHCHO_cmaq_sw ==
    /\ fn = "OMHCHO.cmaq_sw" /\ ~fout.done
    /\ Return(OMHCHO_cmaq_sw(fargs.qpres_hpa, fargs.sat_press, fargs.sw))

\* the corner construction of an interpolated-corner reader
CallCorners ==
    /\ fn = "corners" /\ ~fout.done
    /\ Return(IF fargs.cls = "OMO3PR"
              THEN OMO3PR_corners(fargs.along, fargs.across)
              ELSE VIIRS_corners(fargs.along, fargs.across))

NextCalls ==
    \/ CallCorners
    \/ FirstPass
    \/ SecondPass
    \/ CallOMNO2_cmaq_sw
    \/ CallOMHCHO_cmaq_sw

SpecCalls == InitCalls /\ [][NextCalls]_vars

(* ======================================================================= *)
(* Properties                                                              *)
(* ======================================================================= *)
Done == pc = "done"
ReturnedTables == Done /\ ret.kind = "tables"
ReturnedDataset == Done /\ ret.kind = "dataset"
HasValidPixel(d) == \E n \in 1..Len(d.pix) : d.pix[n].valid
KnownWeighting == weighting \in {"equal", "area"}

\* what processing path p alone must raise, "none" if nothing: the file
\* cannot be opened, a requested variable is not in it, it has no valid
\* pixel, or the weighting option is unknown
ExpectedError(p) ==
    IF ~fs[p].exists THEN FileNotFound(p)
    ELSE LET keys == EffectiveKeys(cls, fs[p], varkeys)
             bad == {n \in 1..Len(keys) : keys[n] \notin Variables(fs[p])}
         IN IF bad # {} THEN MissingKey(keys[CHOOSE n \in bad : \A m \in bad : n <= m])
            ELSE IF ~HasValidPixel(fs[p]) THEN NoValidPixels
            ELSE IF ~KnownWeighting THEN UnknownWeighting(weighting)
            ELSE "none"

Fails(p) == ExpectedError(p) # "none"

RECURSIVE SumWeightSum(_, _, _, _)
\* the sum over the first n per-file results of wd of weight_sum at row k of
\* the table of dimension signature dimks
SumWeightSum(wd, dimks, k, n) ==
    IF n = 0 THEN 0
    ELSE SumWeightSum(wd, dimks, k, n - 1)
         + (IF DictHas(wd[n].v, dimks) /\ k \in DOMAIN DictGet(wd[n].v, dimks).row
            THEN DictGet(wd[n].v, dimks).row[k]["weight_sum"].n ELSE 0)

\* C1: in table mode every path that fails is in the returned failure
\* report under its own path with the (non-empty) repr of its error, and
\* every path that does not fail has its per-file result in the second
\* pass: each of its rows is a row of the combined table, whose weight_sum
\* counts it, wherever the failing paths stand in the list.
C1_FailuresRecordedOthersContribute ==
    ReturnedTables =>
      \A n \in 1..Len(paths) :
        LET p == paths[n] IN
        IF Fails(p)
        THEN /\ DictHas(ret.nodata, p)
             /\ DictGet(ret.nodata, p) = ExpectedError(p)
             /\ DictGet(ret.nodata, p) \notin {"", "none"}
             /\ ~DictHas(withdata, p)
        ELSE /\ DictHas(withdata, p)
             /\ ~DictHas(ret.nodata, p)
             /\ \A g \in 1..Len(DictGet(withdata, p)) :
                  LET t == DictGet(withdata, p)[g] IN
                  /\ DictHas(ret.outputs, t.k)
                  /\ \A k \in DOMAIN t.v.row :
                       /\ k \in DOMAIN DictGet(ret.outputs, t.k).row
                       /\ DictGet(ret.outputs, t.k).row[k]["weight_sum"]
                            = FInt(SumWeightSum(withdata, t.k, k, Len(withdata)))
                       /\ DictGet(ret.outputs, t.k).row[k]["weight_sum"].n
                            >= t.v.row[k]["weight_sum"].n

\* a good file after a failing one and before another failing one, all
\* reported and combined
C1_Witness ==
    /\ ReturnedTables
    /\ Len(paths) = 3
    /\ Fails(paths[1]) /\ ~Fails(paths[2]) /\ Fails(paths[3])
    /\ paths[1] # paths[3]
    /\ Len(ret.nodata) = 2
    /\ Len(ret.outputs) > 0

\* C2: paths_to_level3 never raises for per-file problems: when every one of
\* the paths given fails, as tables or as a dataset, the call still returns.
C2_NeverRaises ==
    (Done /\ Len(paths) > 0 /\ \A n \in 1..Len(paths) : Fails(paths[n]))
      => ret.kind # "raised"

\* C9: to_level3 on a dataset without a valid pixel raises
\* ValueError('No valid pixels') before any overlay or aggregation (original
\* statement: for any requested variables).
C9_Original ==
    (pc \in {"overlay", "weights", "groups", "except"} /\ sat = path
       /\ ~HasValidPixel(ds))
    => (pc = "except" /\ exc = NoValidPixels /\ intx = <<>> /\ overlays = <<>>)

\* C9 (amended): to_level3 on a dataset without a valid pixel raises before
\* any overlay or aggregation and returns nothing: ValueError('No valid
\* pixels') when every requested variable is in the dataset, and the
\* KeyError of the first requested variable that is not.
C9_NoValidPixelsRaises ==
    (pc \in {"overlay", "weights", "groups", "except"} /\ sat = path
       /\ ~HasValidPixel(ds))
    => /\ pc = "except"
       /\ exc = ExpectedError(path)
       /\ exc \in {NoValidPixels} \cup {MissingKey(varkeys[n]) : n \in 1..Len(varkeys)}
       /\ ((\A n \in 1..Len(varkeys) : varkeys[n] \in Variables(ds))
             => exc = NoValidPixels)
       /\ geodf = <<>> /\ intx = <<>> /\ overlays = <<>>
       /\ \A r \in 1..Len(withdata) : HasValidPixel(fs[withdata[r].k])

C9_Witness ==
    /\ pc = "except" /\ exc = NoValidPixels
    /\ sat = path /\ ~HasValidPixel(ds) /\ Len(ds.pix) > 1
    /\ Len(dimsets) > 0

\* C10: add_weights with an option other than 'equal' and 'area' raises
\* KeyError('Unknown weighting option ...') and leaves the intersection
\* table as it was, without a weight column; to_level3 is aborted there, with
\* no group aggregated.
C10_UnknownWeightingRaises ==
    ~KnownWeighting =>
      /\ pc # "groups"
      /\ overlays = <<>>
      /\ \A r \in 1..Len(intx) : "weight" \notin DOMAIN intx[r]
      /\ withdata = <<>>
      /\ (pc = "except" /\ geodf # <<>>)
           => (exc = UnknownWeighting(weighting) /\ intx = Overlay(geodf, grid))

C10_Witness ==
    /\ pc = "except" /\ exc = UnknownWeighting("bogus")
    /\ Len(intx) > 1 /\ Len(dimsets) > 0

RECURSIVE SumFn(_, _)
\* f[1] + ... + f[n]
SumFn(f, n) == IF n = 0 THEN 0 ELSE SumFn(f, n - 1) + f[n]

\* the weight of pixel n of d in a grid cell under the weighting in force:
\* nothing unless the pixel is valid and overlaps the cell
PixelWeight(d, n, cell) ==
    LET a == BoxArea(BoxIntersection(d.pix[n].box, cell.geometry))
    IN IF ~d.pix[n].valid \/ a = 0 THEN 0
       ELSE IF weighting = "area" THEN a ELSE 1

CellOf(k) == grid[CHOOSE c \in 1..Len(grid) : grid[c].idx = KeyOf(k, GridDims)]
ExtraOf(k) == [dim \in (DOMAIN k) \ Range(GridDims) |-> k[dim]]

\* sum(value * weight) and sum(weight) of variable key at output index k,
\* over the valid pixels of d whose value is not null
MeanNum(d, key, k) ==
    SumFn([n \in 1..Len(d.pix) |->
             LET v == d.pix[n].vals[key][ExtraOf(k)]
             IN IF IsNull(v) THEN 0 ELSE v.n * PixelWeight(d, n, CellOf(k))],
          Len(d.pix))
MeanDen(d, key, k) ==
    SumFn([n \in 1..Len(d.pix) |->
             IF IsNull(d.pix[n].vals[key][ExtraOf(k)]) THEN 0
             ELSE PixelWeight(d, n, CellOf(k))],
          Len(d.pix))
TotalWeight(d, cell) ==
    SumFn([n \in 1..Len(d.pix) |-> PixelWeight(d, n, cell)], Len(d.pix))

\* C3: every table to_level3 builds holds, at every output index (grid
\* cell and extra dimensions) reached by a valid pixel and at no other,
\* for each variable sum(value * weight) / sum(weight) over the
\* intersections whose value is not null (null if there is none), and as
\* weight_sum the sum of the weights of all intersections of the cell.
C3_WeightedMean ==
    (pc = "groups" /\ sat = path) =>
      \A g \in 1..Len(overlays) :
        LET t == overlays[g].v
            keys == DictGet(dimsets, overlays[g].k)
        IN /\ DOMAIN t.row =
                {grid[c].idx @@ e : c \in {c \in 1..Len(grid) : TotalWeight(ds, grid[c]) > 0},
                                    e \in Range(ExtraIdx(overlays[g].k))}
           /\ \A k \in DOMAIN t.row :
                /\ t.row[k]["weight_sum"] = FInt(TotalWeight(ds, CellOf(k)))
                /\ \A n \in 1..Len(keys) :
                     LET v == t.row[k][keys[n]]
                         num == MeanNum(ds, keys[n], k)
                         den == MeanDen(ds, keys[n], k)
                     IN IF den = 0 THEN IsNull(v)
                        ELSE ~IsNull(v) /\ v.n * den = num * v.d

\* one cell covering two pixels and half of a third, weighted by area:
\* (4*1 + 4*2 + 2*2) / (4 + 4 + 2) = 8/5
C3_Witness ==
    /\ pc = "groups" /\ sat = path /\ weighting = "area"
    /\ Len(overlays) = Len(dimsets) /\ Len(overlays) > 0
    /\ Len(intx) >= 3
    /\ intx[1].weight = 4 /\ intx[2].weight = 4 /\ intx[3].weight = 2
    /\ \A r \in 1..3 : KeyOf(intx[r].idx, GridDims) = CellIdx(0, 0)
    /\ overlays[1].v.row[CellIdx(0, 0)]["ColumnAmountNO2Trop"] = [n |-> 8, d |-> 5]
    /\ overlays[1].v.row[CellIdx(0, 0)]["weight_sum"] = FInt(10)

TableOf(out, dimks) == DictGet(out, dimks)

\* C4: the second pass is associative: the combined tables of three files
\* equal the tables of the first two combined and then combined with the
\* third by the same pass, in every value and weight_sum.
C4_Associative ==
    (ReturnedTables /\ Len(withdata) = 3) =>
      \A g \in 1..Len(ret.outputs) :
        LET dimks == ret.outputs[g].k
            t == [f \in 1..3 |-> DictGet(withdata[f].v, dimks)]
            ab == CombineGroup(<<t[1], t[2]>>, <<withdata[1].k, withdata[2].k>>)
        IN (\A f \in 1..3 : DictHas(withdata[f].v, dimks)) =>
             CombineGroup(<<ab, t[3]>>, <<"AB", withdata[3].k>>).row
               = ret.outputs[g].v.row

\* to_level3 on dataset d as one function: the result mapping
ToLevel3(d) ==
    LET keys == EffectiveKeys(cls, d, varkeys)
        dsets == SetDefaultAppend(<<>>, keys, Len(keys))
        w == add_weights(Overlay(ToGeoDataframe(d).rows, grid), weighting)
    IN [g \in 1..Len(dsets) |->
          [k |-> dsets[g].k,
           v |-> Level3Group(d, w.intx, GridDims, dsets[g].k, dsets[g].v)]]

Rows(out) == {<<out[g].k, out[g].v.row>> : g \in 1..Len(out)}
Entries(d) == {<<d[r].k, d[r].v>> : r \in 1..Len(d)}

\* the outputs for a set of good paths taken in one fixed order
OutputsOfSet(P) ==
    LET q == SetToSeq(P)
    IN CombineAll([r \in 1..Len(q) |-> [k |-> q[r], v |-> ToLevel3(fs[q[r]])]])

\* C5: the tables and the failure report depend on the set of paths only,
\* not on their order: the values and weight_sum of every table are those
\* of the good paths combined in one fixed order, each per-file result is
\* that of its file alone, and the report holds the error of each failing
\* path.
C5_OrderIndependent ==
    ReturnedTables =>
      /\ Rows(ret.outputs) = Rows(OutputsOfSet({p \in Range(paths) : ~Fails(p)}))
      /\ \A r \in 1..Len(withdata) : withdata[r].v = ToLevel3(fs[withdata[r].k])
      /\ Entries(ret.nodata) =
           {<<p, ExpectedError(p)>> : p \in {q \in Range(paths) : Fails(q)}}

\* three good files, not in the fixed order, and a failure
C5_Witness ==
    /\ ReturnedTables
    /\ Len(withdata) >= 2 /\ Len(ret.nodata) >= 1
    /\ DictKeys(withdata) # SetToSeq(Range(DictKeys(withdata)))
    /\ Len(ret.outputs) > 0

CellWeights(cell) ==
    SumFn([r \in 1..Len(intx) |->
             IF KeyOf(intx[r].idx, GridDims) = cell.idx THEN intx[r].weight ELSE 0],
          Len(intx))
OverlapArea(d, n, cell) ==
    IF d.pix[n].valid THEN BoxArea(BoxIntersection(d.pix[n].box, cell.geometry)) ELSE 0
Intersecting(d, cell) == {n \in 1..Len(d.pix) : OverlapArea(d, n, cell) > 0}
TotalOverlap(d, cell) ==
    SumFn([n \in 1..Len(d.pix) |-> OverlapArea(d, n, cell)], Len(d.pix))
TotalPixelArea(d, cell) ==
    SumFn([n \in 1..Len(d.pix) |->
             IF n \in Intersecting(d, cell) THEN BoxArea(d.pix[n].box) ELSE 0],
          Len(d.pix))
Weighted == pc = "groups" /\ sat = path /\ weighting = "area"

\* C6 (original statement): under 'area' weighting the weights of a grid
\* cell sum to the overlap area of the cell with the pixels intersecting
\* it, which exceeds neither the cell's area nor the area of those pixels.
C6_Original ==
    Weighted =>
      \A c \in 1..Len(grid) :
        /\ CellWeights(grid[c]) = TotalOverlap(ds, grid[c])
        /\ CellWeights(grid[c]) <= BoxArea(grid[c].geometry)
        /\ CellWeights(grid[c]) <= TotalPixelArea(ds, grid[c])

\* C6 (amended): under 'area' weighting the weights of a grid cell sum to
\* the sum, over the valid pixels intersecting it, of each pixel's overlap
\* area with the cell; the sum never exceeds the total area of those
\* pixels nor as many cell areas as there are such pixels, and it does not
\* exceed the cell's area when no two of those pixels overlap.
C6_AreaWeights ==
    Weighted =>
      \A c \in 1..Len(grid) :
        /\ CellWeights(grid[c]) = TotalOverlap(ds, grid[c])
        /\ CellWeights(grid[c]) <= TotalPixelArea(ds, grid[c])
        /\ CellWeights(grid[c])
             <= Cardinality(Intersecting(ds, grid[c])) * BoxArea(grid[c].geometry)
        /\ (\A m, n \in Intersecting(ds, grid[c]) :
              m # n => BoxArea(BoxIntersection(ds.pix[m].box, ds.pix[n].box)) = 0)
             => CellWeights(grid[c]) <= BoxArea(grid[c].geometry)

\* a cell partly covered by two pixels that do not overlap each other
C6_Witness ==
    /\ Weighted
    /\ \E c \in 1..Len(grid) :
         /\ Cardinality(Intersecting(ds, grid[c])) >= 2
         /\ CellWeights(grid[c]) < TotalPixelArea(ds, grid[c])
         /\ CellWeights(grid[c]) > 0
         /\ \A m, n \in Intersecting(ds, grid[c]) :
              m # n => BoxArea(BoxIntersection(ds.pix[m].box, ds.pix[n].box)) = 0

\* C7: each variable's metadata in the output, tables or dataset, is that
\* of the variable in the first successful file's result.
C7_FirstFileMetadata ==
    (Done /\ ret.kind # "raised" /\ Len(withdata) > 0) =>
      \A g \in 1..Len(withdata[1].v) :
        LET first == withdata[1].v[g] IN
        \A key \in DOMAIN first.v.attrs :
          IF ret.kind = "tables"
          THEN DictGet(ret.outputs, first.k).attrs[key] = first.v.attrs[key]
          ELSE ret.attrs[key] = first.v.attrs[key]

StrictReaders == {"OMHCHO", "OMO3PR", "OMPROFOZ"}
Ended == rpc \in {"returned", "raised"}

\* C8 (original statement): open_dataset of every reader raises when no
\* pixel is valid after the bbox and the validity filter, and never
\* returns a dataset whose valid flag is false for every pixel.
C8_Original == rpc = "returned" => AnyValid(rvalid)

\* C8 (amended): OMHCHO, OMO3PR and OMPROFOZ raise ValueError('No valid
\* pixels in <path> with <bbox>') exactly when no pixel is valid after the
\* bbox and the validity filter, and return only datasets with a valid
\* pixel; OMNO2 returns the dataset and warns 'No valid pixels' exactly
\* when no pixel is valid; the VIIRS readers return the dataset without a
\* test or a warning. No reader raises otherwise, but for a bbox that holds
\* no pixel centre: there the along-track slicing fails, except that
\* VIIRS_AERDB, which slices by label, may go on with a dataset of no rows.
C8_StrictReadersRaise ==
    Ended =>
      /\ rcls \in StrictReaders =>
           /\ rpc = "returned" => AnyValid(rvalid) /\ rwarned = "none"
           /\ rpc = "raised" /\ rexc = NoValidPixelsIn =>
                Len(rvalid) > 0 /\ ~AnyValid(rvalid)
      /\ rcls = "OMNO2" /\ rpc = "returned" =>
           (rwarned = "No valid pixels" <=> ~AnyValid(rvalid))
      /\ rcls \in {"VIIRS_AERDT", "VIIRS_AERDB"} /\ rpc = "returned" =>
           rwarned = "none"
      /\ rcls \notin StrictReaders => rexc # NoValidPixelsIn
      /\ rpc = "raised" /\ rexc # NoValidPixelsIn =>
           /\ rexc = IF rcls = "VIIRS_AERDB" THEN EmptySelection ELSE NaNSlice
           /\ rbbox # NoBbox /\ RowsInBbox(rraw, rbbox) = {}
      /\ rbbox # NoBbox /\ RowsInBbox(rraw, rbbox) = {} =>
           \/ rpc = "raised"
           \/ rcls = "VIIRS_AERDB" /\ rvalid = <<>>

\* OMHCHO raised on two rows in the bbox of which none passes its test
C8_Witness ==
    /\ rcls = "OMHCHO" /\ rbbox # NoBbox
    /\ rpc = "raised" /\ rexc = NoValidPixelsIn
    /\ Len(rvalid) >= 2


\* C11: add_weights gives every intersection record the weight 1 under
\* 'equal' and the planar area of its intersection polygon under 'area',
\* returns None, and changes nothing of the table but the weight column.
C11_WeightsAssigned ==
    (pc = "groups" /\ sat = path) =>
      LET before == Overlay(geodf, grid) IN
      /\ add_weights(before, weighting).ret = "None"
      /\ Len(intx) = Len(before)
      /\ \A r \in 1..Len(intx) :
           /\ DOMAIN intx[r] = DOMAIN before[r] \cup {"weight"}
           /\ \A f \in DOMAIN before[r] : intx[r][f] = before[r][f]
           /\ weighting = "equal" => intx[r].weight = 1
           /\ weighting = "area" =>
                LET g == intx[r].geometry
                IN intx[r].weight = (g[3] - g[1]) * (g[4] - g[2])

\* under 'area' two intersections of different area got their weights
C11_Witness ==
    /\ pc = "groups" /\ sat = path /\ weighting = "area"
    /\ \E r, q \in 1..Len(intx) : intx[r].weight = 4 /\ intx[q].weight = 2


\* the rows of a table in grid cell c, and their total weight
RowsOfCell(rows, c) == {r \in 1..Len(rows) : rows[r].idx = c}
CellWeight(rows, c) ==
    SumFn([r \in 1..Len(rows) |-> IF rows[r].idx = c THEN rows[r].weight ELSE 0],
          Len(rows))
AllRows == IF "rows" \in DOMAIN fargs THEN fargs.rows ELSE fargs.a \o fargs.b

\* C12: in the grouped weighted average of to_level3 and in the second
\* pass of paths_to_level3 the call returns a table with one row per group,
\* and a group whose total weight is zero holds a null average of every
\* variable; a group with a non-null value of positive weight holds a
\* non-null average.
C12_ZeroWeightNull ==
    (fout.done /\ fn \in {"to_level3.grouped_weighted_avg",
                          "paths_to_level3.grouped_weighted_avg"}) =>
      /\ DOMAIN fout.val = {AllRows[r].idx : r \in 1..Len(AllRows)}
      /\ \A c \in DOMAIN fout.val :
           /\ CellWeight(AllRows, c) = 0 =>
                /\ IsNull(fout.val[c]["v"]) /\ IsNull(fout.val[c]["weight"])
                /\ fout.val[c]["weight_sum"] = FInt(0)
           /\ (\E r \in RowsOfCell(AllRows, c) :
                 AllRows[r].weight > 0 /\ ~IsNull(AllRows[r].cols["v"]))
                => ~IsNull(fout.val[c]["v"])

\* the second pass over two files whose rows in cell (0, 0) hold values but
\* no weight, and whose rows in cell (0, 1) hold weight
C12_Witness ==
    /\ fout.done /\ fn = "paths_to_level3.grouped_weighted_avg"
    /\ DOMAIN fout.val = {CellIdx(0, 0), CellIdx(0, 1)}
    /\ \E r \in RowsOfCell(fargs.a, CellIdx(0, 0)) : ~IsNull(fargs.a[r].cols["v"])
    /\ \E r \in RowsOfCell(fargs.b, CellIdx(0, 0)) : ~IsNull(fargs.b[r].cols["v"])
    /\ CellWeight(AllRows, CellIdx(0, 0)) = 0
    /\ IsNull(fout.val[CellIdx(0, 0)]["v"])
    /\ ~IsNull(fout.val[CellIdx(0, 1)]["v"])


\* the rows of the raw file open_dataset keeps
KeptRows == prep_dataset(rraw, rbbox).rows

\* C13: OMNO2.open_dataset marks a pixel valid exactly when
\* (VcdQualityFlags & 1) = 0, XTrackQualityFlags = 0 and CloudFraction <=
\* 0.3 and, with a bbox, its centre is in the closed box swlat <= Latitude
\* <= nelat, swlon <= Longitude <= nelon.
C13_OMNO2Valid ==
    (rcls = "OMNO2" /\ rpc = "returned") =>
      /\ Len(rvalid) = Len(KeptRows)
      /\ \A t \in 1..Len(rvalid) :
           LET px == KeptRows[t] IN
           rvalid[t] <=>
             /\ px.VcdQualityFlags \in {0, 2}
             /\ px.XTrackQualityFlags = 0
             /\ px.CloudFraction <= 3
             /\ rbbox # NoBbox =>
                  /\ rbbox[2] <= px.Latitude /\ px.Latitude <= rbbox[4]
                  /\ rbbox[1] <= px.Longitude /\ px.Longitude <= rbbox[3]

\* with a bbox: a valid pixel on the corner of the box, and a pixel of good
\* quality outside it that is kept and not valid
C13_Witness ==
    /\ rcls = "OMNO2" /\ rpc = "returned" /\ rbbox # NoBbox
    /\ \E t, u \in 1..Len(rvalid) :
         /\ rvalid[t]
         /\ KeptRows[t].Longitude = rbbox[3] /\ KeptRows[t].Latitude = rbbox[4]
         /\ ~rvalid[u] /\ OMNO2_valid(KeptRows[u])
         /\ KeptRows[u].Longitude > rbbox[3]


\* C14: VIIRS_AERDT marks a pixel valid exactly when
\* Land_Ocean_Quality_Flag > isvalid, isvalid being 2 by default.
C14_ValidAboveIsvalid ==
    (rcls = "VIIRS_AERDT" /\ rpc = "returned") =>
      \A t \in 1..Len(rvalid) :
        rvalid[t] <=> KeptRows[t].Land_Ocean_Quality_Flag > risvalid


\* the source axis and the nodes coord_interp is given by cmaq_sw
SourceCoord ==
    IF fn = "OMHCHO.cmaq_sw"
    THEN OMHCHO_sat_press(fargs.qpres_hpa, fargs.sat_press)
    ELSE fargs.sat_press
Nodes == {k \in 1..Len(fargs.sw) : ~IsNull(fargs.sw[k])}
FLeq(a, b) == a.n * b.d <= b.n * a.d

\* C15: coord_interp as called by OMNO2.cmaq_sw and OMHCHO.cmaq_sw on a
\* descending source axis: a target coordinate equal to that of a source
\* node holding a value gets exactly that value; a target coordinate beyond
\* an end of the source axis gets the value of the nearest end; the result
\* is never null, nor outside the range of the source values.
C15_InterpClamps ==
    (fout.done /\ fn \in {"OMNO2.cmaq_sw", "OMHCHO.cmaq_sw"} /\ Nodes # {}) =>
      \A l \in 1..Len(fargs.qpres_hpa) :
        LET x == fargs.qpres_hpa[l]
            y == fout.val.interp[l]
        IN /\ \A k \in Nodes : x = SourceCoord[k] => y = fargs.sw[k]
           /\ \A k \in Nodes :
                (\A j \in Nodes : SourceCoord[j] <= SourceCoord[k])
                /\ x >= SourceCoord[k] => y = fargs.sw[k]
           /\ \A k \in Nodes :
                (\A j \in Nodes : SourceCoord[j] >= SourceCoord[k])
                /\ x <= SourceCoord[k] => y = fargs.sw[k]
           /\ ~IsNull(y)
           /\ \E j, k \in Nodes : FLeq(fargs.sw[j], y) /\ FLeq(y, fargs.sw[k])

\* OMNO2.cmaq_sw with one layer below the lowest source level and one on
\* the middle source level, the levels holding the weights 1, 3 and null
C15_Witness ==
    /\ fout.done /\ fn = "OMNO2.cmaq_sw"
    /\ fargs.sw = <<FInt(1), FInt(3), Null>>
    /\ fargs.qpres_hpa[1] > fargs.sat_press[1]
    /\ fargs.qpres_hpa[2] = fargs.sat_press[2]
    /\ fout.val.interp = <<FInt(1), FInt(3)>>


\* the permutations of 1..n, and dataset d with its pixel rows in the order p
Perms(n) == {p \in [1..n -> 1..n] : \A a, b \in 1..n : p[a] = p[b] => a = b}
PermutePix(d, p) == [d EXCEPT !.pix = [n \in 1..Len(d.pix) |-> d.pix[p[n]]]]

\* C16: the tables of to_level3 do not depend on the order of the pixel
\* rows: for every permutation of the rows of the dataset the values and
\* weight_sum of every output group are the same.
C16_PixelOrder ==
    (pc = "groups" /\ sat = path /\ Len(overlays) = Len(dimsets)) =>
      \A p \in Perms(Len(ds.pix)) :
        LET other == ToLevel3(PermutePix(ds, p))
        IN /\ Len(other) = Len(overlays)
           /\ \A g \in 1..Len(overlays) :
                /\ other[g].k = overlays[g].k
                /\ other[g].v.row = overlays[g].v.row

\* three valid pixels of different values, two of them in one grid cell
C16_Witness ==
    /\ pc = "groups" /\ sat = path /\ Len(overlays) = Len(dimsets)
    /\ Len(overlays) > 0
    /\ Len(ds.pix) = 3 /\ \A n \in 1..3 : ds.pix[n].valid
    /\ ds.pix[1].vals["ColumnAmountNO2Trop"] # ds.pix[2].vals["ColumnAmountNO2Trop"]
    /\ \E r, q \in 1..Len(intx) :
         /\ r # q
         /\ KeyOf(intx[r].idx, GridDims) = KeyOf(intx[q].idx, GridDims)


\* to_level3 has worked through every group of the dataset at hand
AllGroupsDone == pc = "groups" /\ sat = path /\ Len(overlays) = Len(dimsets)

\* pixel n is valid and its polygon and grid cell c share a polygon
Contributes(n, c) ==
    /\ ds.pix[n].valid
    /\ BoxArea(BoxIntersection(ds.pix[n].box, grid[c].geometry)) > 0

\* the valid pixels that intersect grid cell c
Contributors(c) == {n \in 1..Len(ds.pix) : Contributes(n, c)}

\* C17: a pixel contributes a record to a grid cell's group exactly when it
\* is valid and its polygon intersects the cell in a polygon: the overlay
\* holds one record per such (pixel, cell) pair and none for any other pair,
\* each group's joined table holds, per output row of a cell, one record per
\* valid pixel intersecting the cell, and under 'equal' weighting weight_sum
\* is that number of pixels.
C17_Contributions ==
    AllGroupsDone =>
      /\ \A n \in 1..Len(ds.pix), c \in 1..Len(grid) :
           Cardinality({r \in 1..Len(intx) :
                          /\ KeyOf(intx[r].idx, SwathDims) = KeyOf(PixIdx(n), SwathDims)
                          /\ KeyOf(intx[r].idx, GridDims) = KeyOf(grid[c].idx, GridDims)})
             = IF Contributes(n, c) THEN 1 ELSE 0
      /\ \A g \in 1..Len(dimsets), c \in 1..Len(grid) :
           LET df == JoinIntx(intx, ToDataframeRows(ds, dimsets[g].v, TRUE))
               outdims == overlays[g].v.names
               mine == {r \in 1..Len(df) :
                          KeyOf(df[r].idx, GridDims) = KeyOf(grid[c].idx, GridDims)}
               keys == {KeyOf(df[r].idx, outdims) : r \in mine}
           IN /\ (keys = {}) <=> (Contributors(c) = {})
              /\ \A k \in keys :
                   /\ Cardinality({r \in mine : KeyOf(df[r].idx, outdims) = k})
                        = Cardinality(Contributors(c))
                   /\ k \in DOMAIN overlays[g].v.row
                   /\ weighting = "equal" =>
                        overlays[g].v.row[k]["weight_sum"]
                          = FInt(Cardinality(Contributors(c)))
      /\ \A g \in 1..Len(dimsets) :
           \A k \in DOMAIN overlays[g].v.row :
             \E c \in 1..Len(grid) :
               /\ KeyOf(k, GridDims) = KeyOf(grid[c].idx, GridDims)
               /\ Contributors(c) # {}

\* an invalid pixel next to a valid pixel that lies across two grid cells,
\* the first of which another valid pixel intersects too
C17_Witness ==
    /\ AllGroupsDone /\ Len(overlays) > 0 /\ Len(grid) = 2
    /\ \E n \in 1..Len(ds.pix) : ~ds.pix[n].valid
    /\ \E n \in 1..Len(ds.pix) : Contributes(n, 1) /\ Contributes(n, 2)
    /\ Cardinality(Contributors(1)) = 2


\* the edge axis e of centre axis c has one node more than c, starts at the
\* first centre, ends at the last, has the midpoints in between and no node
\* beyond the centres
EdgeAxisOf(e, c) ==
    LET N == Len(c)
    IN /\ Len(e) = N + 1
       /\ e[1] = 2 * c[1]
       /\ e[N + 1] = 2 * c[N]
       /\ \A k \in 2..N : e[k] = 2 * c[k] - 1
       /\ \A k \in 1..(N + 1) : 2 * c[1] <= e[k] /\ e[k] <= 2 * c[N]

\* C18: in the interpolated-corner readers an axis of N centre indices gives
\* N + 1 edge nodes: the first centre, the midpoints i_k - 0.5, the last
\* centre, none outside the centres; the corners of pixel (a, b) are the
\* edge nodes (a, b), (a+1, b), (a, b+1) and (a+1, b+1), ll being the first
\* and uu the last of them.
C18_EdgeNodes ==
    (fout.done /\ fn = "corners") =>
      LET e == fout.val.along
          x == fout.val.across
      IN /\ EdgeAxisOf(e, fargs.along)
         /\ EdgeAxisOf(x, fargs.across)
         /\ \A a \in 1..Len(fargs.along), b \in 1..Len(fargs.across) :
              LET c == fout.val.corners[<<a, b>>]
              IN /\ DOMAIN c = {"ll", "lu", "ul", "uu"}
                 /\ c["ll"] = <<e[a], x[b]>>
                 /\ c["uu"] = <<e[a + 1], x[b + 1]>>
                 /\ {c["lu"], c["ul"]} = {<<e[a + 1], x[b]>>, <<e[a], x[b + 1]>>}

\* the corners of a VIIRS swath of three lines that start at line 1, and
\* two pixels a line
C18_Witness ==
    /\ fout.done /\ fn = "corners" /\ fargs.cls = "VIIRS_AERDB"
    /\ fargs.along = <<1, 2, 3>> /\ fargs.across = <<0, 1>>
    /\ fout.val.along = <<2, 3, 5, 6>>
    /\ fout.val.corners[<<2, 1>>]["ul"] = <<5, 0>>


\* a bbox was given and no along-track row has its centre in it
NoRowInBbox == rbbox # NoBbox /\ RowsInBbox(rraw, rbbox) = {}

\* C19: the guard of prep_dataset against a bbox without values tests a
\* length for being below zero, which no length is: no call of any reader,
\* on any file and bbox, ends with ValueError('<path> has no values in
\* <bbox>'); a bbox that holds no pixel centre ends in another error or, in
\* VIIRS_AERDB, possibly in a dataset without rows.
C19_GuardNeverFires ==
    Ended =>
      /\ rexc # NoValuesIn
      /\ rbbox # NoBbox => ~EmptyBboxGuard(RowsInBbox(rraw, rbbox))
      /\ NoRowInBbox =>
           \/ rpc = "raised" /\ rexc \in {NaNSlice, EmptySelection}
           \/ rcls = "VIIRS_AERDB" /\ rpc = "returned" /\ rvalid = <<>>

\* VIIRS_AERDT was given a bbox that holds no centre of its three rows and
\* failed in the slice
C19_Witness ==
    /\ Ended /\ NoRowInBbox /\ rcls = "VIIRS_AERDT" /\ Len(rraw) = 3
    /\ rpc = "raised" /\ rexc = NaNSlice


\* the keys to_level3 works on for the dataset at hand
RequestedKeys == EffectiveKeys(cls, ds, varkeys)

\* the places of key in the groups: (group, position in its list of keys)
Places(key) ==
    {gm \in (1..Len(dimsets)) \X (1..Len(RequestedKeys)) :
       /\ gm[2] <= Len(dimsets[gm[1]].v)
       /\ dimsets[gm[1]].v[gm[2]] = key}

\* C20 (original statement): every requested variable is placed in exactly
\* one group exactly once, also for the default keys.
C20_Original ==
    AllGroupsDone => \A key \in Range(RequestedKeys) : Cardinality(Places(key)) = 1

\* C20 (amended): to_level3 groups the requested keys by the dimension tuple
\* of their variable: every requested variable is in exactly one group,
\* listed there once for each time it is requested; the variables of a
\* group have the dimension tuple that keys the group and no two groups
\* have the same; the result holds exactly one table per group, keyed by
\* that tuple, with one column per variable of the group; of the default
\* keys those present in the dataset are used.
C20_Partition ==
    AllGroupsDone =>
      /\ \A key \in Range(RequestedKeys) :
           /\ Cardinality({g \in 1..Len(dimsets) : key \in Range(dimsets[g].v)}) = 1
           /\ Cardinality(Places(key))
                = Cardinality({n \in 1..Len(RequestedKeys) : RequestedKeys[n] = key})
      /\ \A g \in 1..Len(dimsets) :
           /\ dimsets[g].v # <<>>
           /\ \A key \in Range(dimsets[g].v) :
                key \in Range(RequestedKeys) /\ VarDims(key) = dimsets[g].k
           /\ \A h \in 1..Len(dimsets) : dimsets[g].k = dimsets[h].k => g = h
      /\ Len(overlays) = Len(dimsets)
      /\ \A g \in 1..Len(dimsets) :
           /\ overlays[g].k = dimsets[g].k
           /\ overlays[g].v.columns = Range(dimsets[g].v) \cup {"weight", "weight_sum"}
      /\ varkeys = <<>> =>
           Range(RequestedKeys) = Range(_defaultkeys(cls)) \cap DataVars(ds)

\* the defaults of OMNO2 on a file that holds two of them: two groups, the
\* first with ColumnAmountNO2Trop listed twice
C20_Witness ==
    /\ AllGroupsDone /\ cls = "OMNO2" /\ varkeys = <<>>
    /\ Len(dimsets) = 2
    /\ dimsets[1].v = <<"ColumnAmountNO2Trop", "ColumnAmountNO2Trop">>
    /\ dimsets[2].v = <<"ScatteringWeight">>
    /\ overlays[1].v.columns = {"ColumnAmountNO2Trop", "weight", "weight_sum"}


\* C21: with a bbox that holds a pixel centre OMIL2.prep_dataset keeps the
\* along-track rows from the first to the last with a centre in the bbox,
\* both included, and the edge rows from the first of the first kept row to
\* the second of the last: one edge row more than rows, and both edge rows
\* of every kept row; without a bbox it returns rows and edge rows as they
\* are.
C21_BboxSubset ==
    (Ended /\ rcls \in OMIReaders) =>
      LET p == prep_dataset(rraw, rbbox)
          e == rnTimes_1
      IN /\ rbbox = NoBbox =>
              /\ p.exc = "none" /\ p.rows = rraw /\ e = EdgeRows(rraw)
              /\ Len(rvalid) = Len(rraw)
         /\ rbbox # NoBbox /\ RowsInBbox(rraw, rbbox) # {} =>
              LET lo == SetMin(RowsInBbox(rraw, rbbox))
                  hi == SetMax(RowsInBbox(rraw, rbbox))
              IN /\ p.exc = "none"
                 /\ p.rows = [k \in 1..(hi - lo + 1) |-> rraw[lo + k - 1]]
                 /\ Len(rvalid) = hi - lo + 1
                 /\ Len(e) = Len(p.rows) + 1
                 /\ \A k \in 1..Len(p.rows) :
                      e[k] = lo + k - 1 /\ e[k + 1] = lo + k

\* OMHCHO ended on three rows of which the first and the last have their
\* centre in the bbox: the row between them is kept too
C21_Witness ==
    /\ Ended /\ rcls = "OMHCHO" /\ rbbox # NoBbox
    /\ Len(rraw) = 3 /\ RowsInBbox(rraw, rbbox) = {1, 3}
    /\ Len(rvalid) = 3
    /\ rnTimes_1 = <<1, 2, 3, 4>>


\* the paths with a per-file result and those with a failure
WithData == Range(DictKeys(withdata))
NoData == Range(DictKeys(nodata))

\* C22: once paths_to_level3 has gone through all paths, every distinct
\* path is in exactly one of withdata and nodata: their key sets are
\* disjoint and together are the set of paths, a path listed more than once
\* has one entry, and the combined tables are the weighted averages of the
\* results of the paths of withdata alone, none of which fails: every row
\* of a combined table is a row of one of them and its weight_sum is the
\* sum of theirs.
C22_PathsPartitioned ==
    (pc \in {"loop", "dataset", "done"} /\ i > Len(paths)) =>
      /\ WithData \cap NoData = {}
      /\ WithData \cup NoData = Range(paths)
      /\ Len(withdata) = Cardinality(WithData)
      /\ Len(nodata) = Cardinality(NoData)
      /\ \A p \in Range(paths) : p \in NoData <=> Fails(p)
      /\ pc # "loop" =>
           \A g \in 1..Len(outputs) :
             \A k \in DOMAIN outputs[g].v.row :
               /\ \E r \in 1..Len(withdata) :
                    /\ DictHas(withdata[r].v, outputs[g].k)
                    /\ k \in DOMAIN DictGet(withdata[r].v, outputs[g].k).row
               /\ outputs[g].v.row[k]["weight_sum"]
                    = FInt(SumWeightSum(withdata, outputs[g].k, k, Len(withdata)))

\* a batch of three paths returned: a good file listed twice and a failing
\* one between
C22_Witness ==
    /\ pc = "done" /\ ret.kind = "tables" /\ Len(paths) = 3
    /\ paths[1] = paths[3] /\ paths[1] # paths[2]
    /\ WithData = {paths[1]} /\ NoData = {paths[2]}
    /\ Len(outputs) > 0


====
